---- MODULE Spec2Model ----
(***************************************************************************)
(* A model of the dependency-injection runtime of pyxdi/xdi:               *)
(*   - the exit stack of laza/di/util.py (registration and unwinding),     *)
(*   - the singleton / resource closures of laza/di/providers/functools.py *)
(*     run by the threads of one scope,                                    *)
(*   - the provider registry and resolver of xdi/containers.py and         *)
(*     xdi/providers/util.py,                                              *)
(*   - the bindings cache (BindingsMap) of xdi/providers/util.py.          *)
(* Each subsystem has its own specification; the variables of the other    *)
(* subsystems are held at their idle values.                               *)
(***************************************************************************)
EXTENDS Naturals, Integers, Sequences, FiniteSets, TLC

VARIABLES
    \* ---- exit stack (laza/di/util.py)
    stack,        \* the list of (is_sync, cb) pairs, oldest first
    nextId,       \* number of callbacks registered so far (their identities)
    ran,          \* per callback identity: how often it has been invoked
    closes,       \* number of __exit__ calls made
    closeRec,     \* what the last __exit__ did
    enterRec,     \* outcome of the last enter(cm)
    pushed,       \* every callback registered, in registration order
    \* ---- singleton / resource closures of one scope
    hasLock,      \* ctx.lock() is not None
    lock,         \* owner of the scope lock (None when free)
    value,        \* per closure: the nonlocal `value` (Missing or a product)
    thr,          \* per thread: position in run(), closure, local result
    invoked,      \* per closure: invocations of func
    failed,       \* per closure: productions that raised
    returned,     \* per closure: the values run() has returned, in order
    enterLog,     \* resources in the order their teardown was pushed
    started,      \* run() calls started in the scope
    \* ---- container registry and provider resolver
    bindings,     \* Container: key -> list of providers, oldest first
    is_default,   \* Provider.is_default
    bindable,     \* Provider.can_bind(scope, key)
    lastRegistered, \* per key: the provider of the latest accepted registration
    clock,        \* number of accepted registrations
    resolved,     \* the last ProviderResolver.resolve call and its result
    \* ---- bindings cache
    bmap,         \* BindingsMap: key -> resolver, None, or Absent
    binder,       \* per thread: position in a lookup
    bindCount,    \* per key: calls of resolve-and-bind made by __missing__
    storeLog,     \* per key: the setdefault calls, in the order they ran
    lookups,      \* per key: the set of objects the lookups have returned
    sequential,   \* lookups never overlap
    \* ---- container inclusion graph
    _included,    \* per container: the keys of its _included dict, in order
    everIncluded, \* per container: every container passed to its include
    lastInclude,  \* the last include call: target, arguments, _included before
    includeCount, \* number of include calls made
    obs,          \* the last query made on the graph and what it gave
    \* ---- Callable-factory resolver
    fres,         \* the CallableFactoryResolver and what evaluate() gave it
    fwrap,        \* what provider(ctx) resolved and which wrapper it built
    fcall,        \* the call of the resolved callable and what func received
    ioc,          \* the IocContainer's _context and the context that is current
    \* ---- factory resolver
    fac,          \* the FactoryResolver and what evaluate() gave it
    fbound,       \* what provider(ctx) resolved and which closure it built
    frun,         \* the invocations of the closure and what func received
    \* ---- evaluation of a signature
    sig,          \* the parameters, the partial arguments and what is provided
    ev,           \* the result of evaluate(injector)
    ecall,        \* the call of the closure built from it
    \* ---- one ParamResolver
    pr,           \* its value, default and annotation, and what is provided
    prObs,        \* what bind and resolve returned and which keys they looked up
    \* ---- closures whose producer resolves another closure of the scope
    scopeLock,    \* the scope's lock: its kind, its owner, how often it is held
    cached,       \* per closure: the nonlocal `value` (Missing or a product)
    frames,       \* per thread: the run() calls under way, innermost last
    resolves,     \* run() calls started from outside a producer
    \* ---- an IocContainer and the scopes that depend on it
    scopeContext, \* per scope: its _context (None when not set)
    dependants,   \* IocContainer.dependants, in the order added
    _context,     \* IocContainer._context
    lastAdd       \* the last add_dependant call and how it ended

stackVars == <<stack, nextId, ran, closes, closeRec, enterRec, pushed>>
scopeVars == <<hasLock, lock, value, thr, invoked, failed, returned, enterLog, started>>
regVars   == <<bindings, is_default, bindable, lastRegistered, clock, resolved>>
bindVars  == <<bmap, binder, bindCount, storeLog, lookups, sequential>>
graphVars == <<_included, everIncluded, lastInclude, includeCount, obs>>
callVars  == <<fres, fwrap, fcall, ioc>>
facVars   == <<fac, fbound, frun>>
evalVars  == <<sig, ev, ecall>>
paramVars == <<pr, prObs>>
resolverVars == <<facVars, evalVars, paramVars>>
nestVars  == <<scopeLock, cached, frames, resolves>>
depVars   == <<scopeContext, dependants, _context, lastAdd>>
restVars  == <<graphVars, callVars, resolverVars, nestVars, depVars>>
vars      == <<stackVars, scopeVars, regVars, bindVars, restVars>>

\* ---------------------------------------------------------------- bounds
MaxStack == 3     \* callbacks registered on one exit stack
MaxCloses == 2    \* __exit__ calls on one exit stack
NThreads == 2     \* threads sharing one scope
MaxCalls == 3     \* run() calls started in one scope
MaxFail == 1      \* productions that raise in one scope
NProviders == 3   \* providers that may be registered
MaxRegister == 3  \* accepted registrations in one container
MaxLookups == 2   \* lookups each thread makes in one BindingsMap
NContainers == 3  \* containers that may include one another
MaxIncludes == 2  \* include calls made on the containers
MaxDepth == 6     \* nested calls the interpreter allows before RecursionError
MaxArgs == 3      \* positional parameters a factory has injected
MaxParams == 3    \* parameters (and var-positional entries) of a signature
MaxInvoke == 2    \* calls of the closure a factory provider built
NScopes == 3      \* scopes that may be made dependants of one IocContainer
MaxUser == 2      \* positional arguments the user passes to the resolved callable

None == 0         \* Python's None; also `Missing` for a closure's value
Last(s) == s[Len(s)]
Front(s) == SubSeq(s, 1, Len(s) - 1)
RECURSIVE Reverse(_)
Reverse(s) == IF s = <<>> THEN <<>> ELSE Append(Reverse(Tail(s)), Head(s))
Range(s) == {s[i] : i \in 1..Len(s)}

\* ================================================================
\*  Exit stack
\* ================================================================

\* What a registered callable does when it is called with the exception triple:
\* returns a false value, returns a true value, raises a new exception, or
\* raises a new exception from inside its own handler of another new exception.
Behaviours == {"false", "true", "raise", "raisenested"}

\* Exceptions are identified by numbers. FrameExc is the exception the caller
\* of __exit__ is handling (sys.exc_info()[1]), BodyExc one passed to __exit__
\* that is not being handled; exceptions raised by callbacks are numbered on.
FrameExc == 1
BodyExc == 2
ExcIds == 1..(2 + 2 * MaxStack)

\* The ways __exit__ is called: (exception passed, exception being handled).
ExitCalls ==
    { <<None, None>>,          \* close() outside any handler
      <<None, FrameExc>>,      \* close() inside an except block
      <<FrameExc, FrameExc>>,  \* a with statement whose body raised
      <<BodyExc, None>>,       \* __exit__(*exc) called outside any handler
      <<BodyExc, FrameExc>> }  \* __exit__(*exc) called inside another handler

\* ExitStack._push_exit_callback: self.append((is_sync, cb))
_push_exit_callback(stk, cb, is_sync) == Append(stk, [cb EXCEPT !.is_sync = is_sync])

\* AbstractExitStack._create_exit_wrapper: MethodType(cm_exit, cm), which
\* returns whatever the __exit__ method returns.
_create_exit_wrapper(id, beh) ==
    [id |-> id, is_sync |-> TRUE, wrapper |-> "exit", beh |-> beh]

\* AbstractExitStack._create_cb_wrapper: _exit_wrapper calls the callback and
\* returns None whatever the callback returned.
_create_cb_wrapper(id, beh) ==
    [id |-> id, is_sync |-> TRUE, wrapper |-> "cb", beh |-> beh]

\* ExitStack._pop_exit_callback = list.pop: the newest pair and the rest
PopOldest(stk) == [cb |-> Head(stk), rest |-> Tail(stk)]
_pop_exit_callback(stk) == [cb |-> Last(stk), rest |-> Front(stk)]

\* The value the stored callable hands back to __exit__ when it does not raise.
CbResultOfFn(cb) == cb.beh = "true"
CbResult(cb) == IF cb.wrapper = "cb" THEN FALSE ELSE cb.beh = "true"

CbRaises(cb) == cb.beh \in {"raise", "raisenested"}

\* _fix_exception_context(new_exc, old_exc, frame_exc) on the __context__ links
RECURSIVE _fix_exception_context(_, _, _, _)
_fix_exception_context(ctx, new_exc, old_exc, frame_exc) ==
    LET exc_context == ctx[new_exc] IN
    IF exc_context = None \/ exc_context = old_exc THEN ctx
    ELSE IF exc_context = frame_exc THEN [ctx EXCEPT ![new_exc] = old_exc]
    ELSE _fix_exception_context(ctx, exc_context, old_exc, frame_exc)

\* The state of one __exit__ call before its loop starts.
ExitStart(stk, passed, frame_exc) ==
    [ stack |-> stk,
      exc |-> passed,                     \* exc_details[1]
      received_exc |-> passed # None,
      suppressed_exc |-> FALSE,
      pending_raise |-> FALSE,
      ctx |-> [e \in ExcIds |-> None],    \* __context__ of every exception
      fresh |-> BodyExc + 1,              \* the next exception a callback raises
      log |-> <<>>,                       \* callbacks invoked: identity, exception seen
      events |-> <<>>,                    \* calls of callbacks and awaits of their coroutines
      linked |-> {},                      \* exceptions that were pending when a callback raised
      escaped |-> FALSE,                  \* an exception left the loop
      asserted |-> FALSE ]                \* `assert is_sync` failed

\* The except: branch of the loop, for a callback that raised.
ExitRaised(st, cb, frame_exc) ==
    LET new_exc == st.fresh
        \* an exception raised while frame_exc is handled gets it as __context__;
        \* one raised inside the callback's own handler chains through that first
        raisedCtx ==
            IF cb.beh = "raisenested"
            THEN [st.ctx EXCEPT ![new_exc] = new_exc + 1, ![new_exc + 1] = frame_exc]
            ELSE [st.ctx EXCEPT ![new_exc] = frame_exc]
    IN [st EXCEPT
          !.ctx = _fix_exception_context(raisedCtx, new_exc, st.exc, frame_exc),
          !.fresh = new_exc + 2,
          !.pending_raise = TRUE,
          !.linked = IF st.exc = None THEN {} ELSE st.linked \cup {st.exc},
          !.exc = new_exc]

\* `assert is_sync`
NoAssert(cb) == TRUE
assert_is_sync(cb) == cb.is_sync

\* the callback returned a true value: suppressed_exc = True;
\* pending_raise = False; exc_details = (None, None, None)
SuppressKeepsDetails(st) == [st EXCEPT !.suppressed_exc = TRUE, !.pending_raise = FALSE]
Suppress(st) ==
    [st EXCEPT !.suppressed_exc = TRUE, !.pending_raise = FALSE, !.exc = None, !.linked = {}]

\* One turn of `while self:` in AbstractExitStack.__exit__
ExitTurnNoCatch(st, frame_exc) ==
    LET p == _pop_exit_callback(st.stack)
        popped == [st EXCEPT !.stack = p.rest]
        called == [popped EXCEPT !.log = Append(st.log,
                      [id |-> p.cb.id, exc |-> st.exc,
                       raised |-> IF CbRaises(p.cb) THEN st.fresh ELSE None]),
                                 !.events = Append(st.events, [id |-> p.cb.id, ev |-> "call"])]
    IN IF ~assert_is_sync(p.cb) THEN [popped EXCEPT !.escaped = TRUE, !.asserted = TRUE]
       ELSE IF CbRaises(p.cb)
            THEN [ExitRaised(called, p.cb, frame_exc) EXCEPT !.escaped = TRUE]
       ELSE IF CbResult(p.cb)
            THEN Suppress(called)
       ELSE called
ExitTurn(st, frame_exc) ==
    LET p == _pop_exit_callback(st.stack)
        popped == [st EXCEPT !.stack = p.rest]
        called == [popped EXCEPT !.log = Append(st.log,
                      [id |-> p.cb.id, exc |-> st.exc,
                       raised |-> IF CbRaises(p.cb) THEN st.fresh ELSE None]),
                                 !.events = Append(st.events, [id |-> p.cb.id, ev |-> "call"])]
    IN IF ~assert_is_sync(p.cb) THEN [popped EXCEPT !.escaped = TRUE, !.asserted = TRUE]
       ELSE IF CbRaises(p.cb) THEN ExitRaised(called, p.cb, frame_exc)
       ELSE IF CbResult(p.cb)
            THEN Suppress(called)
       ELSE called

RECURSIVE ExitLoop(_, _)
ExitLoop(st, frame_exc) ==
    IF st.stack = <<>> \/ st.escaped THEN st
    ELSE ExitLoop(ExitTurn(st, frame_exc), frame_exc)

\* what one __exit__ or __aexit__ call did, from the state its loop ended in
ExitResult(stk, passed, frame_exc, st, is_async) ==
    [ before |-> stk,
      passed |-> passed,
      frame_exc |-> frame_exc,
      is_async |-> is_async,
      stack |-> st.stack,
      log |-> st.log,
      events |-> st.events,
      ctx |-> st.ctx,
      linked |-> st.linked,
      outcome |-> IF st.asserted THEN "assert"
                  ELSE IF st.pending_raise THEN "raise" ELSE "return",
      exc |-> IF st.asserted THEN None ELSE IF st.pending_raise THEN st.exc ELSE None,
      retval |-> ~st.asserted /\ ~st.pending_raise
                 /\ st.received_exc /\ st.suppressed_exc ]

\* AbstractExitStack.__exit__(*exc_details): the whole call. outcome is
\* "return" (with retval), "raise" (the pending exception, context as fixed)
\* or "assert" (the AssertionError of `assert is_sync`).
__exit__(stk, passed, frame_exc) ==
    ExitResult(stk, passed, frame_exc,
               ExitLoop(ExitStart(stk, passed, frame_exc), frame_exc), FALSE)

\* `cb_suppress = await cb(*exc_details)`: the call makes the coroutine, the
\* await runs it to completion
CallNoAwait(cb) == <<[id |-> cb.id, ev |-> "call"]>>
CallAndAwait(cb) == <<[id |-> cb.id, ev |-> "call"], [id |-> cb.id, ev |-> "await"]>>

\* One turn of `while self:` in AbstractAsyncExitStack.__aexit__
AexitTurn(st, frame_exc) ==
    LET p == _pop_exit_callback(st.stack)
        popped == [st EXCEPT !.stack = p.rest]
        called == [popped EXCEPT !.log = Append(st.log,
                      [id |-> p.cb.id, exc |-> st.exc,
                       raised |-> IF CbRaises(p.cb) THEN st.fresh ELSE None]),
                                 !.events = st.events \o
                                     (IF p.cb.is_sync
                                      THEN <<[id |-> p.cb.id, ev |-> "call"]>>
                                      ELSE CallAndAwait(p.cb))]
    IN IF CbRaises(p.cb) THEN ExitRaised(called, p.cb, frame_exc)
       ELSE IF CbResult(p.cb) THEN Suppress(called)
       ELSE called

RECURSIVE AexitLoop(_, _)
AexitLoop(st, frame_exc) ==
    IF st.stack = <<>> THEN st
    ELSE AexitLoop(AexitTurn(st, frame_exc), frame_exc)

\* AbstractAsyncExitStack.__aexit__(*exc_details): the whole call
__aexit__(stk, passed, frame_exc) ==
    ExitResult(stk, passed, frame_exc,
               AexitLoop(ExitStart(stk, passed, frame_exc), frame_exc), TRUE)

NoClose ==
    [ before |-> <<>>, passed |-> None, frame_exc |-> None, is_async |-> FALSE,
      stack |-> <<>>, events |-> <<>>,
      log |-> <<>>, ctx |-> [e \in ExcIds |-> None], linked |-> {},
      outcome |-> "none", exc |-> None, retval |-> FALSE ]

\* AbstractExitStack.enter: the teardown is pushed once __enter__ has returned
PushBeforeEnter(enterRaises) == TRUE
PushAfterEnter(enterRaises) == ~enterRaises

\* what enter(cm) gave its caller: the result of cm.__enter__ (named after cm),
\* or the exception __enter__ raised
NoEnter == [outcome |-> "none", cm |-> None, result |-> None]
EnterOutcome(cm, enterRaises) ==
    IF enterRaises THEN [outcome |-> "raised", cm |-> cm, result |-> None]
    ELSE [outcome |-> "entered", cm |-> cm, result |-> cm]

StackInit ==
    /\ stack = <<>>
    /\ nextId = 0
    /\ ran = [i \in 1..MaxStack |-> 0]
    /\ closes = 0
    /\ closeRec = NoClose
    /\ enterRec = NoEnter
    /\ pushed = <<>>

\* the stack is filled, then closed
CanRegister == nextId < MaxStack /\ closes = 0

\* callbacks invoked by a close are counted per identity
RanAfter(log) ==
    [i \in DOMAIN ran |-> ran[i] + Cardinality({j \in 1..Len(log) : log[j].id = i})]

\* a callback joins the list (and the record of registrations)
Register(cb, is_sync) ==
    /\ stack' = _push_exit_callback(stack, cb, is_sync)
    /\ pushed' = Append(pushed, [cb EXCEPT !.is_sync = is_sync])
    /\ nextId' = nextId + 1

\* AbstractExitStack.push(exit): an object with __exit__, or a plain callable
\* with the __exit__ signature; both are stored as synchronous callbacks.
push(beh) ==
    /\ CanRegister
    /\ Register(_create_exit_wrapper(nextId + 1, beh), TRUE)
    /\ UNCHANGED <<ran, closes, closeRec, enterRec, scopeVars, regVars, bindVars, restVars>>

\* AbstractExitStack.enter(cm): __enter__ first, the push only if it returned.
enter(beh, enterRaises) ==
    /\ CanRegister
    /\ IF PushAfterEnter(enterRaises)
       THEN Register(_create_exit_wrapper(nextId + 1, beh), TRUE)
       ELSE /\ nextId' = nextId + 1
            /\ UNCHANGED <<stack, pushed>>
    /\ enterRec' = EnterOutcome(nextId + 1, enterRaises)
    /\ UNCHANGED <<ran, closes, closeRec, scopeVars, regVars, bindVars, restVars>>

\* AbstractExitStack.callback(fn, *args, **kwds)
callback(beh) ==
    /\ CanRegister
    /\ Register(_create_cb_wrapper(nextId + 1, beh), TRUE)
    /\ UNCHANGED <<ran, closes, closeRec, enterRec, scopeVars, regVars, bindVars, restVars>>

\* AbstractAsyncExitStack.push_async_exit(exit): stored with is_sync = False
push_async_exit ==
    /\ CanRegister
    /\ Register([id |-> nextId + 1, is_sync |-> FALSE, wrapper |-> "aexit", beh |-> "false"],
                FALSE)
    /\ UNCHANGED <<ran, closes, closeRec, enterRec, scopeVars, regVars, bindVars, restVars>>

\* close() and the other callers of __exit__
close(passed, frame_exc) ==
    /\ closes < MaxCloses
    /\ LET r == __exit__(stack, passed, frame_exc) IN
        /\ closeRec' = r
        /\ stack' = r.stack
        /\ ran' = RanAfter(r.log)
    /\ closes' = closes + 1
    /\ UNCHANGED <<nextId, enterRec, pushed, scopeVars, regVars, bindVars, restVars>>

\* aclose() and the other callers of __aexit__
aclose(passed, frame_exc) ==
    /\ closes < MaxCloses
    /\ LET r == __aexit__(stack, passed, frame_exc) IN
        /\ closeRec' = r
        /\ stack' = r.stack
        /\ ran' = RanAfter(r.log)
    /\ closes' = closes + 1
    /\ UNCHANGED <<nextId, enterRec, pushed, scopeVars, regVars, bindVars, restVars>>

StackNext ==
    \/ \E beh \in Behaviours : push(beh)
    \/ \E beh \in Behaviours, enterRaises \in BOOLEAN : enter(beh, enterRaises)
    \/ \E beh \in {"true", "raise"} : callback(beh)
    \/ push_async_exit
    \/ \E c \in ExitCalls : close(c[1], c[2])

\* an AsyncExitStack that is filled with synchronous and asynchronous
\* callbacks and unwound by __aexit__
AsyncStackNext ==
    \/ \E beh \in {"false", "true", "raise"} : push(beh)
    \/ push_async_exit
    \/ \E c \in ExitCalls : aclose(c[1], c[2])

\* ================================================================
\*  Singleton and resource closures of one scope
\* ================================================================

Threads == 1..NThreads
Resources == {"resA", "resB"}      \* closures built by decorators.resource
Closures == {"sng"} \cup Resources \* "sng" is built by decorators.singleton

ThreadIdle == [pc |-> "idle", cur |-> "sng", tmp |-> None]

ScopeIdle ==
    /\ hasLock = FALSE
    /\ lock = None
    /\ value = [c \in Closures |-> None]
    /\ thr = [t \in Threads |-> ThreadIdle]
    /\ invoked = [c \in Closures |-> 0]
    /\ failed = [c \in Closures |-> 0]
    /\ returned = [c \in Closures |-> <<>>]
    /\ enterLog = <<>>
    /\ started = 0

\* decorators.singleton / decorators.resource: lock = ctx.lock(); value = Missing
ScopeInit ==
    /\ hasLock \in BOOLEAN
    /\ lock = None
    /\ value = [c \in Closures |-> None]
    /\ thr = [t \in Threads |-> ThreadIdle]
    /\ invoked = [c \in Closures |-> 0]
    /\ failed = [c \in Closures |-> 0]
    /\ returned = [c \in Closures |-> <<>>]
    /\ enterLog = <<>>
    /\ started = 0

\* Without a lock the scope is single-threaded: one task runs at a time.
MayRun(t) == hasLock \/ t = 1

Goto(t, pc) == thr' = [thr EXCEPT ![t].pc = pc]

\* a thread calls run() of closure c
Start(t, c) ==
    /\ thr[t].pc = "idle"
    /\ MayRun(t)
    /\ closes = 0
    /\ started < MaxCalls
    /\ started' = started + 1
    /\ thr' = [thr EXCEPT ![t] = [pc |-> "check1", cur |-> c, tmp |-> None]]
    /\ UNCHANGED <<hasLock, lock, value, invoked, failed, returned, enterLog, stackVars, regVars, bindVars, restVars>>

\* `if value is Missing:` (the fast path): where run() goes next
FastPathAlwaysMiss(v) == IF hasLock THEN "acquire" ELSE "call"
FastPath(v) ==
    IF v = None THEN (IF hasLock THEN "acquire" ELSE "call") ELSE "return"

Check1(t) ==
    /\ thr[t].pc = "check1"
    /\ Goto(t, FastPath(value[thr[t].cur]))
    /\ UNCHANGED <<hasLock, lock, value, invoked, failed, returned, enterLog, started, stackVars, regVars, bindVars, restVars>>

\* `with lock:` blocks until the lock is free
LockNotExclusive(owner) == TRUE
CanAcquire(owner) == owner = None

Acquire(t) ==
    /\ thr[t].pc = "acquire"
    /\ CanAcquire(lock)
    /\ lock' = t
    /\ Goto(t, "check2")
    /\ UNCHANGED <<hasLock, value, invoked, failed, returned, enterLog, started, stackVars, regVars, bindVars, restVars>>

\* `if value is Missing:` under the lock (the slow path): where run() goes next
SlowPathNoRecheck(v) == "call"
SlowPath(v) == IF v = None THEN "call" ELSE "release"

Check2(t) ==
    /\ thr[t].pc = "check2"
    /\ Goto(t, SlowPath(value[thr[t].cur]))
    /\ UNCHANGED <<hasLock, lock, value, invoked, failed, returned, enterLog, started, stackVars, regVars, bindVars, restVars>>

Failures == failed["sng"] + failed["resA"] + failed["resB"]

\* func() or ctx.enter(...) raises: the exception leaves run(), through the
\* `with lock:` block when there is a lock
RaiseHoldingLock(locked) == "idle"
Raise(locked) == IF locked THEN "unlock_raise" ELSE "idle"

\* func(): returns a new product, or raises
Call(t) ==
    /\ thr[t].pc = "call"
    /\ LET c == thr[t].cur IN
        /\ invoked' = [invoked EXCEPT ![c] = @ + 1]
        /\ \/ /\ thr' = [thr EXCEPT ![t].tmp = invoked[c] + 1,
                                    ![t].pc = IF c \in Resources THEN "enter" ELSE "store"]
              /\ UNCHANGED failed
           \/ /\ Failures < MaxFail
              /\ failed' = [failed EXCEPT ![c] = @ + 1]
              /\ thr' = [thr EXCEPT ![t].tmp = None,
                                    ![t].pc = Raise(hasLock)]
    /\ UNCHANGED <<hasLock, lock, value, returned, enterLog, started, stackVars, regVars, bindVars, restVars>>

\* what the teardown (__exit__) of a produced resource may do
TeardownBehaviours == {"false", "raise"}

\* ctx.enter(cm) of decorators.resource, on the scope's exit stack:
\* AbstractExitStack.enter
Enter(t) ==
    /\ thr[t].pc = "enter"
    /\ LET c == thr[t].cur IN
        \E enterRaises \in BOOLEAN :
            /\ IF PushAfterEnter(enterRaises)
               THEN /\ \E beh \in TeardownBehaviours :
                          Register(_create_exit_wrapper(nextId + 1, beh), TRUE)
                    /\ enterLog' = Append(enterLog, [closure |-> c, id |-> nextId + 1])
               ELSE /\ nextId' = nextId + 1
                    /\ UNCHANGED <<stack, pushed, enterLog>>
            /\ enterRec' = EnterOutcome(nextId + 1, enterRaises)
            /\ IF enterRaises
               THEN /\ Failures < MaxFail
                    /\ failed' = [failed EXCEPT ![c] = @ + 1]
                    /\ thr' = [thr EXCEPT ![t].tmp = None, ![t].pc = Raise(hasLock)]
               ELSE /\ Goto(t, "store")
                    /\ UNCHANGED failed
    /\ UNCHANGED <<hasLock, lock, value, invoked, returned, started, ran, closes, closeRec, regVars, bindVars, restVars>>

\* `value = ...`
Store(t) ==
    /\ thr[t].pc = "store"
    /\ value' = [value EXCEPT ![thr[t].cur] = thr[t].tmp]
    /\ Goto(t, IF hasLock THEN "release" ELSE "return")
    /\ UNCHANGED <<hasLock, lock, invoked, failed, returned, enterLog, started, stackVars, regVars, bindVars, restVars>>

\* the with block is left normally
Release(t) ==
    /\ thr[t].pc = "release"
    /\ lock' = None
    /\ Goto(t, "return")
    /\ UNCHANGED <<hasLock, value, invoked, failed, returned, enterLog, started, stackVars, regVars, bindVars, restVars>>

\* the with block is left by the producer's exception, which reaches the caller
UnlockRaise(t) ==
    /\ thr[t].pc = "unlock_raise"
    /\ lock' = None
    /\ Goto(t, "idle")
    /\ UNCHANGED <<hasLock, value, invoked, failed, returned, enterLog, started, stackVars, regVars, bindVars, restVars>>

\* `return value`
Return(t) ==
    /\ thr[t].pc = "return"
    /\ returned' = [returned EXCEPT ![thr[t].cur] = Append(@, value[thr[t].cur])]
    /\ Goto(t, "idle")
    /\ UNCHANGED <<hasLock, lock, value, invoked, failed, enterLog, started, stackVars, regVars, bindVars, restVars>>

AllIdle == \A t \in Threads : thr[t].pc = "idle"

\* the scope is left: its exit stack is closed
ScopeClose ==
    /\ AllIdle
    /\ close(None, None)

ScopeNext ==
    \/ \E t \in Threads, c \in Closures : Start(t, c)
    \/ \E t \in Threads : Check1(t)
    \/ \E t \in Threads : Acquire(t)
    \/ \E t \in Threads : Check2(t)
    \/ \E t \in Threads : Call(t)
    \/ \E t \in Threads : Enter(t)
    \/ \E t \in Threads : Store(t)
    \/ \E t \in Threads : Release(t)
    \/ \E t \in Threads : UnlockRaise(t)
    \/ \E t \in Threads : Return(t)
    \/ ScopeClose

\* ================================================================
\*  Container registry and ProviderResolver
\* ================================================================

Providers == 1..NProviders

\* Registry keys: a plain key "K" and a parametric alias "G" of it
\* (typing.get_origin("G") is "K"; a plain key has no origin).
RegKeys == {"K", "G"}
get_origin(key) == IF key = "G" THEN "K" ELSE "none"

\* What resolve() may be asked for: a key, a provider, or a marker around either.
BaseDeps == [kind : {"key"}, key : RegKeys, provider : {None}]
              \cup [kind : {"provider"}, key : {"none"}, provider : Providers]
Deps == [marker : BOOLEAN, dep : BaseDeps]

NoProvider == [found |-> FALSE, primary |-> None, subs |-> <<>>, substituted |-> FALSE]
NotResolved == [asked |-> FALSE, marker |-> FALSE, dep |-> [kind |-> "key", key |-> "K", provider |-> None],
                result |-> NoProvider]

RegIdle ==
    /\ bindings = [k \in RegKeys |-> <<>>]
    /\ is_default = [p \in Providers |-> FALSE]
    /\ bindable = [p \in Providers |-> TRUE]
    /\ lastRegistered = [k \in RegKeys |-> None]
    /\ clock = 0
    /\ resolved = NotResolved

\* Providers differ in is_default and in whether can_bind accepts them. They are
\* interchangeable otherwise, so the attributes are drawn in one fixed order
\* (default-flag, then bindability, non-decreasing with the provider number).
AttrRank(d, b) == (IF d THEN 2 ELSE 0) + (IF b THEN 1 ELSE 0)

RegInit ==
    /\ bindings = [k \in RegKeys |-> <<>>]
    /\ is_default \in [Providers -> BOOLEAN]
    /\ bindable \in [Providers -> BOOLEAN]
    /\ \A p, q \in Providers :
          p < q => AttrRank(is_default[p], bindable[p]) <= AttrRank(is_default[q], bindable[q])
    /\ lastRegistered = [k \in RegKeys |-> None]
    /\ clock = 0
    /\ resolved = NotResolved

\* Container.__setitem__: the stack of the key after the provider is stored
StoreProvider(stk, pro) == IF pro \in Range(stk) THEN stk ELSE Append(stk, pro)

\* Container.__setitem__(abstract, provider). set_container may reject the
\* provider (None); an accepted one joins the key's list unless it is in it.
__setitem__(abstract, provider, accepted) ==
    /\ ~resolved.asked
    /\ clock < MaxRegister
    /\ IF accepted
       THEN /\ bindings' = [bindings EXCEPT ![abstract] = StoreProvider(@, provider)]
            /\ lastRegistered' = [lastRegistered EXCEPT ![abstract] = provider]
            /\ clock' = clock + 1
       ELSE UNCHANGED <<bindings, lastRegistered, clock>>
    /\ UNCHANGED <<is_default, bindable, resolved, stackVars, scopeVars, bindVars, restVars>>

\* registry.get_all(key): every provider stored for the key, oldest first
get_all(key) == IF key \in RegKeys THEN bindings[key] ELSE <<>>

\* `ls[::-1]`: the candidates, newest first
OldestFirst(ls) == ls
NewestFirst(ls) == Reverse(ls)

\* `[v for v in stack if not v.is_default] or stack`
KeepDefaults(stk) == stk
DiscardDefaults(stk) ==
    LET nondefault == SelectSeq(stk, LAMBDA v : ~is_default[v])
    IN IF nondefault # <<>> THEN nondefault ELSE stk

\* ProviderResolver._reduce_providers(obj, stack)
_reduce_providers(stk) ==
    LET canBind == SelectSeq(stk, LAMBDA v : bindable[v])
        kept == DiscardDefaults(canBind)
    IN IF kept = <<>> THEN NoProvider
       ELSE [found |-> TRUE, primary |-> Head(kept), subs |-> Tail(kept),
             substituted |-> Tail(kept) # <<>>]

\* ProviderResolver.resolve(dep); a marker is replaced by its dependency first
resolve(d) ==
    IF d.dep.kind = "provider"
    THEN IF bindable[d.dep.provider]
         THEN [found |-> TRUE, primary |-> d.dep.provider, subs |-> <<>>,
               substituted |-> FALSE]
         ELSE NoProvider
    ELSE LET own == get_all(d.dep.key)
             ls == IF own # <<>> THEN own ELSE get_all(get_origin(d.dep.key))
         IN IF ls = <<>> THEN NoProvider ELSE _reduce_providers(NewestFirst(ls))

\* a resolve call on the registry as it stands (the container graph is not
\* changed once a scope resolves from it)
Resolve(d) ==
    /\ resolved' = [asked |-> TRUE, marker |-> d.marker, dep |-> d.dep, result |-> resolve(d)]
    /\ UNCHANGED <<bindings, is_default, bindable, lastRegistered, clock,
                   stackVars, scopeVars, bindVars, restVars>>

RegNext ==
    \/ \E k \in RegKeys, p \in Providers, accepted \in BOOLEAN : __setitem__(k, p, accepted)
    \/ \E d \in Deps : Resolve(d)

\* ================================================================
\*  BindingsMap
\* ================================================================

\* An entry of the dict: no entry, the value None, or a bound resolver
\* (the provider it was bound from and the identity of the closure).
AbsentEntry == [has |-> FALSE, provider |-> None, obj |-> 0]
NoneEntry == [has |-> TRUE, provider |-> None, obj |-> 0]
Resolver(provider, n) == [has |-> TRUE, provider |-> provider, obj |-> n]

BinderIdle == [pc |-> "idle", key |-> "K", tmp |-> AbsentEntry, n |-> 0]

BindIdle ==
    /\ bmap = [k \in RegKeys |-> AbsentEntry]
    /\ binder = [t \in Threads |-> BinderIdle]
    /\ bindCount = [k \in RegKeys |-> 0]
    /\ storeLog = [k \in RegKeys |-> <<>>]
    /\ lookups = [k \in RegKeys |-> <<>>]
    /\ sequential = FALSE

BindInit ==
    /\ bmap = [k \in RegKeys |-> AbsentEntry]
    /\ binder = [t \in Threads |-> BinderIdle]
    /\ bindCount = [k \in RegKeys |-> 0]
    /\ storeLog = [k \in RegKeys |-> <<>>]
    /\ lookups = [k \in RegKeys |-> <<>>]
    /\ sequential \in BOOLEAN

\* the registry a scope is opened on: "K" has no provider, one, or two, and
\* the scope is one they can bind in, or one they cannot
BindRegInit ==
    /\ bindings \in { [k \in RegKeys |-> <<>>],
                      [k \in RegKeys |-> IF k = "K" THEN <<1>> ELSE <<>>],
                      [k \in RegKeys |-> IF k = "K" THEN <<1, 2>> ELSE <<>>] }
    /\ is_default = [p \in Providers |-> FALSE]
    /\ \E b \in BOOLEAN : bindable = [p \in Providers |-> b]
    /\ lastRegistered = [k \in RegKeys |-> None]
    /\ clock = 0
    /\ resolved = NotResolved

KeyDep(k) == [marker |-> FALSE, dep |-> [kind |-> "key", key |-> k, provider |-> None]]

\* `p and p.bind(self.__injector, key)`: None, or a new resolver closure
BindPlaceholder(k, n) ==
    LET p == resolve(KeyDep(k))
    IN Resolver(IF p.found THEN p.primary ELSE None, n)
BindResult(k, n) ==
    LET p == resolve(KeyDep(k))
    IN IF p.found THEN Resolver(p.primary, n) ELSE NoneEntry

\* dict.setdefault(self, key, value): the dict afterwards
StoreAlways(m, k, v) == [m EXCEPT ![k] = v]
StoreNever(m, k, v) == m
setdefault(m, k, v) == IF m[k].has THEN m ELSE [m EXCEPT ![k] = v]

\* bmap[key]: dict.__getitem__, which returns a stored entry or calls __missing__
Lookup(t, k) ==
    /\ binder[t].pc = "idle"
    /\ binder[t].n < MaxLookups
    /\ sequential => \A u \in Threads : binder[u].pc = "idle"
    /\ IF bmap[k].has
       THEN /\ lookups' = [lookups EXCEPT ![k] = Append(@, bmap[k])]
            /\ binder' = [binder EXCEPT ![t].n = @ + 1]
       ELSE /\ binder' = [binder EXCEPT ![t] = [pc |-> "missing", key |-> k,
                                               tmp |-> AbsentEntry, n |-> @.n + 1]]
            /\ UNCHANGED lookups
    /\ UNCHANGED <<bmap, bindCount, storeLog, sequential, regVars, stackVars, scopeVars, restVars>>

\* BindingsMap.__missing__: p = resolver.resolve(key); p and p.bind(...)
Missing(t) ==
    /\ binder[t].pc = "missing"
    /\ LET k == binder[t].key IN
        /\ bindCount' = [bindCount EXCEPT ![k] = @ + 1]
        /\ binder' = [binder EXCEPT ![t].tmp = BindResult(k, bindCount[k] + 1),
                                    ![t].pc = "store"]
    /\ UNCHANGED <<bmap, storeLog, lookups, sequential, regVars, stackVars, scopeVars, restVars>>

\* BindingsMap.__missing__: return dict.setdefault(self, key, ...)
SetDefault(t) ==
    /\ binder[t].pc = "store"
    /\ LET k == binder[t].key
           after == setdefault(bmap, k, binder[t].tmp)
           result == IF after[k].has THEN after[k] ELSE binder[t].tmp
       IN /\ bmap' = after
          /\ storeLog' = [storeLog EXCEPT ![k] = Append(@, [thread |-> t, entry |-> binder[t].tmp])]
          /\ lookups' = [lookups EXCEPT ![k] = Append(@, result)]
    /\ binder' = [binder EXCEPT ![t].pc = "idle", ![t].tmp = AbsentEntry]
    /\ UNCHANGED <<bindCount, sequential, regVars, stackVars, scopeVars, restVars>>

BindNext ==
    \/ \E t \in Threads, k \in RegKeys : Lookup(t, k)
    \/ \E t \in Threads : Missing(t)
    \/ \E t \in Threads : SetDefault(t)

\* ================================================================
\*  Container inclusion graph
\* ================================================================

Containers == 1..NContainers

\* Container.name: containers 1 and 2 carry the same name, the others their own
name == [c \in Containers |-> IF c = 1 THEN 2 ELSE c]

\* Container.__hash__: hash(self.name)
__hash__(c) == name[c]

\* Container.__eq__: o is self
EqByName(self, o) == name[o] = name[self]
__eq__(self, o) == o = self

\* isinstance(o, Container)
IsContainer(o) == o \in Containers

\* Container.__ne__: `not o is self or (True if isinstance(o, Container) else
\* NotImplemented)`; `not` applies to `o is self` alone, and the right operand
\* of `or` is what the method returns when o is self
__ne__(self, o) == ~(o = self) \/ IsContainer(o)

\* bool as Python prints it
PyBool(b) == IF b THEN "True" ELSE "False"

\* two dict keys are the same key: equal hashes, and identical or equal objects
KeyMatch(a, b) == __hash__(a) = __hash__(b) /\ (a = b \/ __eq__(a, b))

\* `key in d`, on the ordered keys of a dict
DictHas(keys, k) == \E i \in 1..Len(keys) : KeyMatch(keys[i], k)

\* the keys of a dict after the keys of seq are stored into it one by one:
\* a key that is present keeps its place, a new key goes to the end
RECURSIVE DictUpdate(_, _)
DictUpdate(keys, seq) ==
    IF seq = <<>> THEN keys
    ELSE DictUpdate(IF DictHas(keys, Head(seq)) THEN keys ELSE Append(keys, Head(seq)),
                    Tail(seq))

\* dict.fromkeys(containers)
fromkeys(containers) == DictUpdate(<<>>, containers)

\* frozendict | dict
DictOr(left, right) == DictUpdate(left, right)

\* `self._included | dict.fromkeys(containers)`
IncludedAppended(inc, containers) == inc \o containers
IncludedAfter(inc, containers) == DictOr(inc, fromkeys(containers))

NoInclude == [target |-> None, args |-> <<>>, before |-> <<>>]
NoObs == [kind |-> "none", self |-> None, other |-> None, result |-> "none",
          entries |-> <<>>]

GraphIdle ==
    /\ _included = [c \in Containers |-> <<>>]
    /\ everIncluded = [c \in Containers |-> {}]
    /\ lastInclude = NoInclude
    /\ includeCount = 0
    /\ obs = NoObs

\* Container(): _included is an empty frozendict
GraphInit == GraphIdle

\* the argument lists of include: one container, or two (possibly the same
\* one twice; the other order of two is reached by two calls)
IncludeArgs ==
    {<<x>> : x \in Containers}
        \cup {w \in Containers \X Containers : w[1] <= w[2]}

\* Container.include(*containers)
include(self, containers) ==
    /\ obs.kind = "none"
    /\ includeCount < MaxIncludes
    /\ _included' = [_included EXCEPT ![self] = IncludedAfter(@, containers)]
    /\ everIncluded' = [everIncluded EXCEPT ![self] = @ \cup Range(containers)]
    /\ lastInclude' = [target |-> self, args |-> containers, before |-> _included[self]]
    /\ includeCount' = includeCount + 1
    /\ UNCHANGED <<obs, stackVars, scopeVars, regVars, bindVars, callVars, resolverVars, nestVars, depVars>>

\* Container.includes(other); the recursion stops with RecursionError when the
\* interpreter's limit is reached
RECURSIVE includes(_, _, _)
RECURSIVE AnyIncludes(_, _, _)
IncludesDirect(self, other, depth) ==
    IF other = self \/ DictHas(_included[self], other) THEN "True" ELSE "False"
includes(self, other, depth) ==
    IF depth = 0 THEN "RecursionError"
    ELSE IF other = self THEN "True"
    ELSE IF DictHas(_included[self], other) THEN "True"
    ELSE AnyIncludes(_included[self], other, depth - 1)

\* any(c.includes(other) for c in self._included)
AnyIncludes(cs, other, depth) ==
    IF cs = <<>> THEN "False"
    ELSE LET r == includes(Head(cs), other, depth)
         IN IF r = "False" THEN AnyIncludes(Tail(cs), other, depth) ELSE r

\* Container._dro_entries_(source): the pairs the generator yields, in order,
\* until it ends or the nesting reaches the interpreter's limit. `own` marks
\* the pair a call yields for its own container (`yield source or self, self`),
\* which comes before everything the included containers yield.
YieldSelfLast(first, rest) == rest \o first
YieldOrder(first, rest) == first \o rest

RECURSIVE _dro_entries_(_, _, _)
RECURSIVE DroIncluded(_, _, _, _, _)
_dro_entries_(self, source, depth) ==
    IF depth = 0 THEN [entries |-> <<>>, overflow |-> TRUE]
    ELSE LET first == <<[key |-> IF source = None THEN self ELSE source,
                         val |-> self, own |-> TRUE]>>
             sub == DroIncluded(self, Reverse(_included[self]), None, depth, <<>>)
         IN [entries |-> YieldOrder(first, sub.entries), overflow |-> sub.overflow]

\* `it = reversed(self._included)`: the first container is traversed as it is,
\* every further one after the pair (prev, c):
\* `for c in it: yield prev, c; yield from c._dro_entries_(self); prev = c`
DroIncluded(self, it, prev, depth, acc) ==
    IF it = <<>> THEN [entries |-> acc, overflow |-> FALSE]
    ELSE LET c == Head(it)
             link == IF prev = None THEN <<>>
                     ELSE <<[key |-> prev, val |-> c, own |-> FALSE]>>
             r == _dro_entries_(c, self, depth - 1)
         IN IF r.overflow
            THEN [entries |-> acc \o link \o r.entries, overflow |-> TRUE]
            ELSE DroIncluded(self, Tail(it), c, depth, acc \o link \o r.entries)

\* a caller asks other-in-self
Includes(self, other) ==
    /\ obs.kind = "none"
    /\ obs' = [kind |-> "includes", self |-> self, other |-> other,
               result |-> includes(self, other, MaxDepth), entries |-> <<>>]
    /\ UNCHANGED <<_included, everIncluded, lastInclude, includeCount,
                   stackVars, scopeVars, regVars, bindVars, callVars, resolverVars, nestVars, depVars>>

\* a caller consumes the whole of self._dro_entries_()
Dro(self) ==
    /\ obs.kind = "none"
    /\ LET r == _dro_entries_(self, None, MaxDepth)
       IN obs' = [kind |-> "dro", self |-> self, other |-> None,
                  result |-> IF r.overflow THEN "RecursionError" ELSE "done",
                  entries |-> r.entries]
    /\ UNCHANGED <<_included, everIncluded, lastInclude, includeCount,
                   stackVars, scopeVars, regVars, bindVars, callVars, resolverVars, nestVars, depVars>>

\* a caller evaluates self == other
Eq(self, other) ==
    /\ obs.kind = "none"
    /\ obs' = [kind |-> "eq", self |-> self, other |-> other,
               result |-> PyBool(__eq__(self, other)), entries |-> <<>>]
    /\ UNCHANGED <<_included, everIncluded, lastInclude, includeCount,
                   stackVars, scopeVars, regVars, bindVars, callVars, resolverVars, nestVars, depVars>>

\* a caller evaluates self != other
Ne(self, other) ==
    /\ obs.kind = "none"
    /\ obs' = [kind |-> "ne", self |-> self, other |-> other,
               result |-> PyBool(__ne__(self, other)), entries |-> <<>>]
    /\ UNCHANGED <<_included, everIncluded, lastInclude, includeCount,
                   stackVars, scopeVars, regVars, bindVars, callVars, resolverVars, nestVars, depVars>>

\* containers are built up by include and then compared
CompareNext ==
    \/ \E c \in Containers, xs \in IncludeArgs : include(c, xs)
    \/ \E a, b \in Containers : Eq(a, b)
    \/ \E a, b \in Containers : Ne(a, b)

GraphNext ==
    \/ \E c \in Containers, xs \in IncludeArgs : include(c, xs)
    \/ \E a, b \in Containers : Includes(a, b)
    \/ \E c \in Containers : Dro(c)

\* ================================================================
\*  Callable-factory resolver
\* ================================================================

\* argument values: where a value comes from (a fixed argument, a resolved
\* dependency, a parameter default, the user's call), for which positional
\* index or keyword name
Val(src, at, nm) == [src |-> src, at |-> at, name |-> nm]
_EMPTY == Val("empty", 0, "")

\* keyword-only parameter names, in signature order
NameOrder == <<"p", "q">>
Names == Range(NameOrder)

\* the ParamResolvers evaluate() keeps as positional: a fixed value, a bound
\* dependency (with or without a default), a default only; "missing" is a
\* dependency ctx.find does not find when the provider runs
PosKinds == {"value", "dep", "dep_default", "default", "missing"}
\* keyword-only parameters: not injected, a fixed value (vals), a dependency (kwds)
KwKinds == {"absent", "fixed", "dep"}

RECURSIVE SeqsUpTo(_, _)
SeqsUpTo(S, n) ==
    IF n = 0 THEN {<<>>}
    ELSE LET shorter == SeqsUpTo(S, n - 1)
         IN shorter \cup {Append(q, x) : q \in {r \in shorter : Len(r) = n - 1}, x \in S}

\* ParamResolver.resolve(ctx): (value, resolver, default)
ParamResolver_resolve(kind, at, nm) ==
    IF kind = "value" THEN [v |-> Val("fixed", at, nm), fn |-> _EMPTY, d |-> _EMPTY]
    ELSE IF kind = "default" THEN [v |-> _EMPTY, fn |-> _EMPTY, d |-> Val("default", at, nm)]
    ELSE IF kind = "dep_default"
         THEN [v |-> _EMPTY, fn |-> Val("resolver", at, nm), d |-> Val("default", at, nm)]
    ELSE IF kind = "dep" THEN [v |-> _EMPTY, fn |-> Val("resolver", at, nm), d |-> _EMPTY]
    ELSE [v |-> _EMPTY, fn |-> _EMPTY, d |-> _EMPTY]

\* calling a dependency's resolver gives the dependency's value
CallResolver(fn) == Val("dep", fn.at, fn.name)

\* FactoryResolver.iresolve_args: the triples up to the first empty one
RECURSIVE iresolve_args(_, _)
iresolve_args(_args, i) ==
    IF i > Len(_args) THEN <<>>
    ELSE LET r == ParamResolver_resolve(_args[i], i, "")
         IN IF r.v = _EMPTY /\ r.d = _EMPTY /\ r.fn = _EMPTY THEN <<>>
            ELSE <<r>> \o iresolve_args(_args, i + 1)

\* FactoryResolver.iresolve_kwds: (name, resolver) of the dependencies found
RECURSIVE iresolve_kwds(_, _)
iresolve_kwds(kw, i) ==
    IF i > Len(NameOrder) THEN <<>>
    ELSE LET n == NameOrder[i]
             r == ParamResolver_resolve(kw[n], 0, n)
         IN (IF kw[n] # "dep" \/ r.fn = _EMPTY THEN <<>> ELSE <<[name |-> n, fn |-> r.fn]>>)
               \o iresolve_kwds(kw, i + 1)

\* vals: the fixed keyword values, as a dict (name, value) in signature order
RECURSIVE FixedVals(_, _)
FixedVals(kw, i) ==
    IF i > Len(NameOrder) THEN <<>>
    ELSE (IF kw[NameOrder[i]] = "fixed"
          THEN <<[name |-> NameOrder[i], value |-> Val("fixed", 0, NameOrder[i])]>>
          ELSE <<>>) \o FixedVals(kw, i + 1)

\* FactoryResolver.iargs(args): the value of each triple, and the resolvers called
RECURSIVE FactoryResolver_iargs(_)
FactoryResolver_iargs(args) ==
    IF args = <<>> THEN [vals |-> <<>>, calls |-> <<>>]
    ELSE LET t == Head(args)
             rest == FactoryResolver_iargs(Tail(args))
         IN IF t.v # _EMPTY THEN [vals |-> <<t.v>> \o rest.vals, calls |-> rest.calls]
            ELSE IF t.fn # _EMPTY
                 THEN [vals |-> <<CallResolver(t.fn)>> \o rest.vals,
                       calls |-> <<t.fn>> \o rest.calls]
            ELSE [vals |-> <<t.d>> \o rest.vals, calls |-> rest.calls]

\* CallableFactoryResolver.iargs(args, a)
IargsUserFirstNoSlice(is_partial, args, a) ==
    IF is_partial
    THEN LET inj == FactoryResolver_iargs(args)
         IN [vals |-> inj.vals \o a, calls |-> inj.calls]
    ELSE LET inj == FactoryResolver_iargs(args)
         IN [vals |-> a \o inj.vals, calls |-> inj.calls]
IargsIgnorePartial(is_partial, args, a) ==
    LET inj == FactoryResolver_iargs(SubSeq(args, Len(a) + 1, Len(args)))
    IN [vals |-> a \o inj.vals, calls |-> inj.calls]
iargs(is_partial, args, a) ==
    IF is_partial
    THEN LET inj == FactoryResolver_iargs(args)
         IN [vals |-> inj.vals \o a, calls |-> inj.calls]
    ELSE LET inj == FactoryResolver_iargs(SubSeq(args, Len(a) + 1, Len(args)))
         IN [vals |-> a \o inj.vals, calls |-> inj.calls]

\* `n in d` and `left | right` on dicts kept as sequences of (name, value)
HasName(d, n) == \E i \in 1..Len(d) : d[i].name = n
ValueOf(d, n) == d[CHOOSE i \in 1..Len(d) : d[i].name = n].value
DictMerge(left, right) ==
    [i \in 1..Len(left) |->
        IF HasName(right, left[i].name)
        THEN [name |-> left[i].name, value |-> ValueOf(right, left[i].name)]
        ELSE left[i]]
      \o SelectSeq(right, LAMBDA e : ~HasName(left, e.name))

\* FactoryResolver.ikwds(kwds, skip): the resolvers of the names not in skip are
\* called; an empty skip calls them all
RECURSIVE IkwdsNoSkip(_, _)
IkwdsNoSkip(kwds, skip) ==
    IF kwds = <<>> THEN [vals |-> <<>>, calls |-> <<>>]
    ELSE LET k == Head(kwds)
             rest == IkwdsNoSkip(Tail(kwds), skip)
         IN [vals |-> <<[name |-> k.name, value |-> CallResolver(k.fn)]>> \o rest.vals,
             calls |-> <<k.fn>> \o rest.calls]
RECURSIVE ikwds(_, _)
ikwds(kwds, skip) ==
    IF kwds = <<>> THEN [vals |-> <<>>, calls |-> <<>>]
    ELSE LET k == Head(kwds)
             rest == ikwds(Tail(kwds), skip)
         IN IF skip # <<>> /\ HasName(skip, k.name) THEN rest
            ELSE [vals |-> <<[name |-> k.name, value |-> CallResolver(k.fn)]>> \o rest.vals,
                  calls |-> <<k.fn>> \o rest.calls]

\* func(*pos, **kw1, **kw2): a name given twice is a TypeError and func does
\* not run
CallFunc(pos, kw1, kw2, calls) ==
    LET kw == kw1 \o kw2
        twice == \E i, j \in 1..Len(kw) : i # j /\ kw[i].name = kw[j].name
    IN [outcome |-> IF twice THEN "TypeError" ELSE "returned",
        pos |-> pos, kw |-> kw, calls |-> calls]

\* CallableFactoryResolver.plain_wrap_func: the callable is func itself
plain_wrap_func(w, a, kw) == CallFunc(a, kw, <<>>, <<>>)

\* CallableFactoryResolver.arg_wrap_func: fn(*a, **kw)
arg_wrap_func(w, a, kw) ==
    LET ia == iargs(w.is_partial, w.args, a)
    IN CallFunc(ia.vals, IF w.vals # <<>> THEN DictMerge(w.vals, kw) ELSE kw, <<>>, ia.calls)

\* CallableFactoryResolver.kwd_wrap_func: fn(*a, **kw)
kwd_wrap_func(w, a, kw) ==
    LET kw2 == IF w.vals # <<>> THEN DictMerge(w.vals, kw) ELSE kw
        ik == ikwds(w.kwds, kw2)
    IN CallFunc(a, kw2, ik.vals, ik.calls)

\* CallableFactoryResolver.arg_kwd_wrap_func: fn(*a, **kw)
arg_kwd_wrap_func(w, a, kw) ==
    LET ia == iargs(w.is_partial, w.args, a)
        kw2 == IF w.vals # <<>> THEN DictMerge(w.vals, kw) ELSE kw
        ik == ikwds(w.kwds, kw2)
    IN \* the generator *iargs(...) is consumed when the call is made, after
       \* the keyword arguments are built
       CallFunc(ia.vals, kw2, ik.vals, ik.calls \o ia.calls)

\* FactoryResolver.make_resolver: which wrapper the provider builds
make_resolver(no_parameters, _args, _kwds) ==
    IF no_parameters THEN "plain"
    ELSE IF _args = <<>> THEN "kwd"
    ELSE IF _kwds = <<>> THEN "arg"
    ELSE "arg_kwd"

NoWrap == [made |-> FALSE, kind |-> "none", is_partial |-> FALSE,
           args |-> <<>>, kwds |-> <<>>, vals |-> <<>>]
NoCall == [done |-> FALSE, a |-> <<>>, kw |-> <<>>, outcome |-> "none",
           pos |-> <<>>, got |-> <<>>, calls |-> <<>>]
NoResolver == [is_partial |-> FALSE, no_parameters |-> TRUE, _args |-> <<>>,
               kw |-> [n \in Names |-> "absent"]]

\* IocContainer._context is None until a scope is attached; no context is
\* current until one is opened; error is what a call of the inject wrapper
\* raised before it had a context
NoContext == [_context |-> "None", current |-> "None", error |-> "none"]

CallIdle ==
    /\ fres = NoResolver
    /\ fwrap = NoWrap
    /\ fcall = NoCall
    /\ ioc = NoContext

\* a CallableFactoryResolver after evaluate(): its positional ParamResolvers,
\* its keyword dependencies and fixed keyword values; is_partial as the
\* provider set it
CallInit ==
    /\ fres \in [is_partial : BOOLEAN, no_parameters : BOOLEAN,
                 _args : SeqsUpTo(PosKinds, MaxArgs), kw : [Names -> KwKinds]]
    /\ fres.no_parameters =>
          (fres._args = <<>> /\ \A n \in Names : fres.kw[n] = "absent")
    /\ fwrap = NoWrap
    /\ fcall = NoCall
    /\ ioc = NoContext

\* provider(ctx): resolve the parameters and build the wrapper
Provide ==
    /\ ioc.current # "None"
    /\ ~fwrap.made
    /\ LET args == iresolve_args(fres._args, 1)
           kwds == iresolve_kwds(fres.kw, 1)
       IN fwrap' = [made |-> TRUE,
                    kind |-> make_resolver(fres.no_parameters, fres._args,
                                           SelectSeq(NameOrder, LAMBDA n : fres.kw[n] = "dep")),
                    is_partial |-> fres.is_partial,
                    args |-> args, kwds |-> kwds, vals |-> FixedVals(fres.kw, 1)]
    /\ UNCHANGED <<fres, fcall, ioc, stackVars, scopeVars, regVars, bindVars, graphVars, resolverVars, nestVars, depVars>>

UserArgs(n) == [i \in 1..n |-> Val("user", i, "")]
UserKw(S) == [i \in 1..Len(SelectSeq(NameOrder, LAMBDA n : n \in S)) |->
                 [name |-> SelectSeq(NameOrder, LAMBDA n : n \in S)[i],
                  value |-> Val("user", 0, SelectSeq(NameOrder, LAMBDA n : n \in S)[i])]]

\* ctx.make(K, *a, **kw): the resolved wrapper is called with the user's
\* arguments
CtxMake(a, kw) ==
    LET r == IF fwrap.kind = "plain" THEN plain_wrap_func(fwrap, a, kw)
             ELSE IF fwrap.kind = "kwd" THEN kwd_wrap_func(fwrap, a, kw)
             ELSE IF fwrap.kind = "arg" THEN arg_wrap_func(fwrap, a, kw)
             ELSE arg_kwd_wrap_func(fwrap, a, kw)
    IN [done |-> TRUE, a |-> a, kw |-> kw, outcome |-> r.outcome,
        pos |-> r.pos, got |-> r.kw, calls |-> r.calls]

\* ctx.make(K)(*a, **kw): the wrapper calls func
CallFn(n, S) ==
    /\ fwrap.made
    /\ ~fcall.done
    /\ fcall' = CtxMake(UserArgs(n), UserKw(S))
    /\ UNCHANGED <<fres, fwrap, ioc, stackVars, scopeVars, regVars, bindVars, graphVars, resolverVars, nestVars, depVars>>

\* IocContainer.add_dependant(scope): the first scope attached gives the
\* container its context variable (the model follows a container up to the
\* first call of its wrapper)
add_dependant ==
    /\ ioc.error = "none"
    /\ ioc._context = "None"
    /\ ioc' = [ioc EXCEPT !._context = "scope._context"]
    /\ UNCHANGED <<fres, fwrap, fcall, stackVars, scopeVars, regVars, bindVars, graphVars, resolverVars, nestVars, depVars>>

\* a context of the attached scope is opened and becomes the current one
OpenContext ==
    /\ ioc.error = "none"
    /\ ioc._context # "None"
    /\ ioc.current = "None"
    /\ ioc' = [ioc EXCEPT !.current = "ctx"]
    /\ UNCHANGED <<fres, fwrap, fcall, stackVars, scopeVars, regVars, bindVars, graphVars, resolverVars, nestVars, depVars>>

\* self._context.get() where _context is the scope's context variable
ContextGet(c) == IF c.current = "None" THEN "NoContextError" ELSE c.current

\* self._context.get() of the inject wrapper: None has no attribute get
WrapperContext(c) == IF c._context = "None" THEN "AttributeError" ELSE ContextGet(c)

\* wrapper(*a, **kw) of AbcIocContainer.inject:
\* self._context.get().make(token, *a, **kw)
wrapper(n, S) ==
    /\ ~fcall.done
    /\ ioc.error = "none"
    /\ IF WrapperContext(ioc) \in {"AttributeError", "NoContextError"}
       THEN /\ ioc' = [ioc EXCEPT !.error = WrapperContext(ioc)]
            /\ UNCHANGED fcall
       ELSE /\ fwrap.made
            /\ fcall' = CtxMake(UserArgs(n), UserKw(S))
            /\ UNCHANGED ioc
    /\ UNCHANGED <<fres, fwrap, stackVars, scopeVars, regVars, bindVars, graphVars, resolverVars, nestVars, depVars>>

CallNext ==
    \/ Provide
    \/ \E n \in 0..MaxUser, S \in SUBSET Names : CallFn(n, S)
    \/ add_dependant
    \/ OpenContext
    \/ \E n \in 0..MaxUser, S \in SUBSET Names : wrapper(n, S)

\* ================================================================
\*  Factory resolver: the closures FactoryResolver compiles
\* ================================================================

\* the positional ParamResolvers of the factory: a fixed value, a dependency
\* (with or without a default), a default only
FactoryPosKinds == {"value", "dep", "dep_default", "default"}

\* the resolver of positional parameter i / of keyword name n
PosResolver(i) == Val("resolver", i, "")
KwResolver(n) == Val("resolver", 0, n)

\* the resolvers of the dependencies of a factory
DepResolvers(_args, kw) ==
    {PosResolver(i) : i \in {j \in 1..Len(_args) : _args[j] \in {"dep", "dep_default"}}}
        \cup {KwResolver(n) : n \in {m \in Names : kw[m] = "dep"}}
\* those that may resolve to an awaitable: the dependencies without a default
MayAwait(_args, kw) ==
    {PosResolver(i) : i \in {j \in 1..Len(_args) : _args[j] = "dep"}}
        \cup {KwResolver(n) : n \in {m \in Names : kw[m] = "dep"}}

\* FactoryResolver.__init__: is_async is taken from the factory unless given
is_async(f_async, is_async_arg) ==
    IF is_async_arg = "None" THEN f_async ELSE is_async_arg = "True"

\* how often resolver fn was called in the invocations of log
RECURSIVE CallsOf(_, _)
CallsOf(log, fn) ==
    IF log = <<>> THEN 0
    ELSE Len(SelectSeq(Head(log).calls, LAMBDA c : c = fn)) + CallsOf(Tail(log), fn)

\* an argument as func receives it: a fixed value or a default is the same
\* object in every call (serial 0)
Passed(v, k) == [src |-> v.src, at |-> v.at, name |-> v.name, serial |-> k]

\* fn(): each call of a dependency's resolver makes a new product, the k-th
\* call the k-th product; the resolvers in aw return it as an awaitable
Product(fn, aw, k) ==
    [src |-> IF fn \in aw THEN "awaitable" ELSE "dep",
     at |-> fn.at, name |-> fn.name, serial |-> k]

\* what iargs / ikwds yielded for a slot, given the calls made before
Yielded(v, aw, log) ==
    IF v.src = "dep"
    THEN Product(Val("resolver", v.at, v.name), aw,
                 CallsOf(log, Val("resolver", v.at, v.name)) + 1)
    ELSE Passed(v, 0)
YieldedArgs(vals, aw, log) == [i \in 1..Len(vals) |-> Yielded(vals[i], aw, log)]
YieldedKwds(kws, aw, log) ==
    [i \in 1..Len(kws) |-> [name |-> kws[i].name, value |-> Yielded(kws[i].value, aw, log)]]

\* FactoryResolver.plain_wrap_func: func itself
FactoryResolver_plain_wrap_func(w, aw, log) == CallFunc(<<>>, <<>>, <<>>, <<>>)

\* FactoryResolver.arg_wrap_func: func(*self.iargs(args), **vals)
FactoryResolver_arg_wrap_func(w, aw, log) ==
    LET ia == FactoryResolver_iargs(w.args)
    IN CallFunc(YieldedArgs(ia.vals, aw, log), YieldedKwds(w.vals, aw, log), <<>>, ia.calls)

\* FactoryResolver.kwd_wrap_func: func(**vals, **self.ikwds(kwds))
FactoryResolver_kwd_wrap_func(w, aw, log) ==
    LET ik == ikwds(w.kwds, <<>>)
    IN CallFunc(<<>>, YieldedKwds(w.vals, aw, log), YieldedKwds(ik.vals, aw, log), ik.calls)

\* FactoryResolver.arg_kwd_wrap_func:
\* func(*self.iargs(args), **vals, **self.ikwds(kwds)); the keyword arguments
\* are built first, the generator *iargs(...) is consumed when the call is made
FactoryResolver_arg_kwd_wrap_func(w, aw, log) ==
    LET ia == FactoryResolver_iargs(w.args)
        ik == ikwds(w.kwds, <<>>)
    IN CallFunc(YieldedArgs(ia.vals, aw, log), YieldedKwds(w.vals, aw, log),
                YieldedKwds(ik.vals, aw, log), ik.calls \o ia.calls)

\* list.insert(i, v), i counted from 0: an index past the end appends
ListAppend(lst, i, v) == Append(lst, v)
list_insert(lst, i, v) ==
    IF i >= Len(lst) THEN Append(lst, v)
    ELSE SubSeq(lst, 1, i) \o <<v>> \o SubSeq(lst, i + 1, Len(lst))

\* awaiting a future gives the product it wraps
Await(fut) == [fut EXCEPT !.src = "awaited"]

\* asyncio.gather(*aws.values()): the results in the order of the awaitables
\* passed, whatever the order in which they complete
gather(futs, order) == [k \in 1..Len(futs) |-> Await(futs[k])]

\* the first loop of async_iargs: lst, aws (slot index -> future) and the
\* resolvers called
RECURSIVE AsyncArgsLoop(_, _, _, _, _)
AsyncArgsLoop(args, i, aw, log, acc) ==
    IF i > Len(args) THEN acc
    ELSE LET t == args[i] IN
         IF t.v # _EMPTY
         THEN AsyncArgsLoop(args, i + 1, aw, log, [acc EXCEPT !.lst = Append(@, Passed(t.v, 0))])
         ELSE IF t.fn # _EMPTY
         THEN LET v == Product(t.fn, aw, CallsOf(log, t.fn) + 1)
                  called == [acc EXCEPT !.calls = Append(@, t.fn)]
              IN IF v.src = "awaitable"
                 THEN AsyncArgsLoop(args, i + 1, aw, log,
                                    [called EXCEPT !.aws = Append(@, [i |-> i - 1, fut |-> v])])
                 ELSE AsyncArgsLoop(args, i + 1, aw, log, [called EXCEPT !.lst = Append(@, v)])
         ELSE AsyncArgsLoop(args, i + 1, aw, log, [acc EXCEPT !.lst = Append(@, Passed(t.d, 0))])

\* the second loop of async_iargs: lst.insert(i, v) for each awaited result
RECURSIVE InsertAwaited(_, _, _, _)
InsertAwaited(lst, aws, res, k) ==
    IF k > Len(aws) THEN lst
    ELSE InsertAwaited(list_insert(lst, aws[k].i, res[k]), aws, res, k + 1)

\* FactoryResolver.async_iargs(args); order is the order in which the
\* awaitables complete
async_iargs(args, aw, log, order) ==
    LET s == AsyncArgsLoop(args, 1, aw, log, [lst |-> <<>>, aws |-> <<>>, calls |-> <<>>])
        res == gather([k \in 1..Len(s.aws) |-> s.aws[k].fut], order)
    IN [vals |-> InsertAwaited(s.lst, s.aws, res, 1), calls |-> s.calls]

\* the loop of async_ikwds (no skip): vals, aws (name -> future) and the
\* resolvers called
RECURSIVE AsyncKwdsLoop(_, _, _, _)
AsyncKwdsLoop(kwds, aw, log, acc) ==
    IF kwds = <<>> THEN acc
    ELSE LET k == Head(kwds)
             v == Product(k.fn, aw, CallsOf(log, k.fn) + 1)
             called == [acc EXCEPT !.calls = Append(@, k.fn)]
         IN IF v.src = "awaitable"
            THEN AsyncKwdsLoop(Tail(kwds), aw, log,
                               [called EXCEPT !.aws = Append(@, [name |-> k.name, fut |-> v])])
            ELSE AsyncKwdsLoop(Tail(kwds), aw, log,
                               [called EXCEPT !.vals = Append(@, [name |-> k.name, value |-> v])])

\* FactoryResolver.async_ikwds(kwds): vals.update(zip(aws, await gather(...)))
async_ikwds(kwds, aw, log) ==
    LET s == AsyncKwdsLoop(kwds, aw, log, [vals |-> <<>>, aws |-> <<>>, calls |-> <<>>])
        res == gather([k \in 1..Len(s.aws) |-> s.aws[k].fut], [k \in 1..Len(s.aws) |-> k])
    IN [vals |-> s.vals \o [k \in 1..Len(s.aws) |-> [name |-> s.aws[k].name, value |-> res[k]]],
        calls |-> s.calls]

\* `await func(...)`: func is called; awaiting what a plain function returned
\* raises TypeError
AwaitFunc(f_async, r) == IF f_async THEN r ELSE [r EXCEPT !.outcome = "TypeError"]

\* FactoryResolver.async_arg_wrap_func
async_arg_wrap_func(w, f_async, aw, log, order) ==
    LET ia == async_iargs(w.args, aw, log, order)
    IN AwaitFunc(f_async, CallFunc(ia.vals, YieldedKwds(w.vals, aw, log), <<>>, ia.calls))

\* FactoryResolver.async_kwd_wrap_func
async_kwd_wrap_func(w, f_async, aw, log) ==
    LET ik == async_ikwds(w.kwds, aw, log)
    IN AwaitFunc(f_async, CallFunc(<<>>, YieldedKwds(w.vals, aw, log), ik.vals, ik.calls))

\* FactoryResolver.async_arg_kwd_wrap_func: gather(async_iargs, async_ikwds)
\* runs each coroutine up to its own gather, async_iargs first
async_arg_kwd_wrap_func(w, f_async, aw, log, order) ==
    LET ia == async_iargs(w.args, aw, log, order)
        ik == async_ikwds(w.kwds, aw, log)
    IN AwaitFunc(f_async, CallFunc(ia.vals, YieldedKwds(w.vals, aw, log), ik.vals,
                                   ia.calls \o ik.calls))

\* the closure provider(ctx) built, called once more after the calls of log
WrapFunc(w, f_async, aw, log, order) ==
    IF w.is_async
    THEN IF w.kind = "plain" THEN FactoryResolver_plain_wrap_func(w, aw, log)
         ELSE IF w.kind = "kwd" THEN async_kwd_wrap_func(w, f_async, aw, log)
         ELSE IF w.kind = "arg" THEN async_arg_wrap_func(w, f_async, aw, log, order)
         ELSE async_arg_kwd_wrap_func(w, f_async, aw, log, order)
    ELSE IF w.kind = "plain" THEN FactoryResolver_plain_wrap_func(w, aw, log)
         ELSE IF w.kind = "kwd" THEN FactoryResolver_kwd_wrap_func(w, aw, log)
         ELSE IF w.kind = "arg" THEN FactoryResolver_arg_wrap_func(w, aw, log)
         ELSE FactoryResolver_arg_kwd_wrap_func(w, aw, log)

\* one call of func, the nth the closure has made
Invocation(r, nth) ==
    [outcome |-> r.outcome, pos |-> r.pos, kw |-> r.kw, calls |-> r.calls, nth |-> nth]

\* FactoryResolver._decorate with no decorators: the closure is the wrapper,
\* so every call of it runs the wrapper
DecorateMemo(w, f_async, aw, log, order) ==
    IF log # <<>> THEN Last(log)
    ELSE Invocation(WrapFunc(w, f_async, aw, log, order), 1)
_decorate(w, f_async, aw, log, order) ==
    Invocation(WrapFunc(w, f_async, aw, log, order), Len(log) + 1)

NoFactory == [f_async |-> FALSE, is_async_arg |-> "None", no_parameters |-> TRUE,
              _args |-> <<>>, kw |-> [n \in Names |-> "absent"], aw |-> {}]
NoBound == [made |-> FALSE, is_async |-> FALSE, kind |-> "none",
            args |-> <<>>, kwds |-> <<>>, vals |-> <<>>]
NoRun == [log |-> <<>>, order |-> <<>>]

FactoryIdle ==
    /\ fac = NoFactory
    /\ fbound = NoBound
    /\ frun = NoRun

\* a FactoryResolver after evaluate(): func is a plain or an async function,
\* is_async is given or left out, some of the dependencies resolve to awaitables
FactoryInit ==
    /\ \E f_async \in BOOLEAN, is_async_arg \in {"None", "True"}, no_parameters \in BOOLEAN,
          _args \in SeqsUpTo(FactoryPosKinds, MaxArgs), kw \in [Names -> KwKinds] :
          /\ ~(f_async /\ is_async_arg = "True")
          /\ no_parameters => (_args = <<>> /\ \A n \in Names : kw[n] = "absent")
          /\ \E aw \in SUBSET MayAwait(_args, kw) :
                fac = [f_async |-> f_async, is_async_arg |-> is_async_arg,
                       no_parameters |-> no_parameters, _args |-> _args, kw |-> kw, aw |-> aw]
    /\ fbound = NoBound
    /\ frun = NoRun

\* provider(ctx) of make_*_resolver: resolve the parameters, build the closure
FactoryProvide ==
    /\ ~fbound.made
    /\ fbound' = [made |-> TRUE,
                  is_async |-> is_async(fac.f_async, fac.is_async_arg),
                  kind |-> make_resolver(fac.no_parameters, fac._args,
                                         SelectSeq(NameOrder, LAMBDA n : fac.kw[n] = "dep")),
                  args |-> iresolve_args(fac._args, 1),
                  kwds |-> iresolve_kwds(fac.kw, 1),
                  vals |-> FixedVals(fac.kw, 1)]
    /\ UNCHANGED <<fac, frun, stackVars, scopeVars, regVars, bindVars, graphVars, callVars,
                   evalVars, paramVars, nestVars, depVars>>

Perms(n) == {p \in [1..n -> 1..n] : \A i, j \in 1..n : (p[i] = p[j]) => (i = j)}

\* the positional awaitables async_iargs gathers
Gathered(w, aw) ==
    IF w.is_async /\ w.kind \in {"arg", "arg_kwd"}
    THEN Len(SelectSeq(w.args, LAMBDA t : t.v = _EMPTY /\ t.fn \in aw))
    ELSE 0

\* the closure is called; the awaitables it gathers complete in some order
Invoke(order) ==
    /\ fbound.made
    /\ Len(frun.log) < MaxInvoke
    /\ frun' = [log |-> Append(frun.log, _decorate(fbound, fac.f_async, fac.aw, frun.log, order)),
                order |-> order]
    /\ UNCHANGED <<fac, fbound, stackVars, scopeVars, regVars, bindVars, graphVars, callVars,
                   evalVars, paramVars, nestVars, depVars>>

FactoryNext ==
    \/ FactoryProvide
    \/ \E order \in Perms(Gathered(fbound, fac.aw)) : Invoke(order)

\* ================================================================
\*  One ParamResolver
\* ================================================================
\* what a partial argument or a parameter default can be: absent (_EMPTY), a
\* literal, an InjectionMarker; an annotation is absent or a type
ArgForms == {"empty", "literal", "marker"}
Annotations == {"empty", "type"}
\* the dependency keys a parameter can name: the marker given as its partial
\* value, the marker given as its default, its annotation
DepKeys == {"value_marker", "default_marker", "type"}

\* ParamResolver.__new__(value, default, annotation)
ParamResolverAnnotationFirst(val, default, annotation) ==
    [annotation |-> annotation,
     dependency |-> IF annotation # "empty" THEN annotation
                    ELSE IF val = "marker" THEN "value_marker"
                    ELSE IF default = "marker" THEN "default_marker"
                    ELSE "empty",
     value |-> val,
     default |-> default,
     has_value |-> ~(val = "empty" \/ val = "marker"),
     has_default |-> ~(default = "empty" \/ default = "marker")]
ParamResolver(val, default, annotation) ==
    [annotation |-> annotation,
     dependency |-> IF val = "marker" THEN "value_marker"
                    ELSE IF default = "marker" THEN "default_marker"
                    ELSE annotation,
     value |-> val,
     default |-> default,
     has_value |-> ~(val = "empty" \/ val = "marker"),
     has_default |-> ~(default = "empty" \/ default = "marker")]

\* ParamResolver.bind(injector): the dependency if it is to be injected, and
\* the keys injector.is_provided was asked about
bind(self, provided) ==
    IF ~self.has_value
    THEN IF self.dependency # "empty"
         THEN [dep |-> IF self.dependency \in provided THEN self.dependency ELSE "None",
               asked |-> <<self.dependency>>]
         ELSE [dep |-> "None", asked |-> <<>>]
    ELSE [dep |-> "None", asked |-> <<>>]

\* ParamResolver.resolve(ctx): which of its branches returns, by what ctx.find
\* gives for the dependency
ResolveKind(self, found) ==
    IF self.has_value THEN "value"
    ELSE IF self.dependency = "empty"
         THEN (IF self.has_default THEN "default" ELSE "missing")
    ELSE IF self.has_default
         THEN (IF self.dependency \in found THEN "dep_default" ELSE "default")
    ELSE (IF self.dependency \in found THEN "dep" ELSE "missing")

\* ParamResolver.resolve(ctx): the triple and the keys ctx.find was asked for
resolve_param(self, found, at, nm) ==
    [triple |-> ParamResolver_resolve(ResolveKind(self, found), at, nm),
     asked |-> IF ~self.has_value /\ self.dependency # "empty"
               THEN <<self.dependency>> ELSE <<>>]

NoParam == [value |-> "empty", default |-> "empty", annotation |-> "empty",
            provided |-> {}, self |-> ParamResolver("empty", "empty", "empty")]
NoParamObs == [bound |-> FALSE, dep |-> "None", bind_asked |-> <<>>,
               resolved |-> FALSE, triple |-> [v |-> _EMPTY, fn |-> _EMPTY, d |-> _EMPTY],
               find_asked |-> <<>>]

ParamIdle ==
    /\ pr = NoParam
    /\ prObs = NoParamObs

\* make_param_resolver(param, value): one parameter of a signature, with the
\* partial argument given for it, in a scope that provides some of the keys
ParamInit ==
    /\ \E val \in ArgForms, default \in ArgForms, annotation \in Annotations,
          provided \in SUBSET DepKeys :
          pr = [value |-> val, default |-> default, annotation |-> annotation,
                provided |-> provided, self |-> ParamResolver(val, default, annotation)]
    /\ prObs = NoParamObs

\* r.bind(injector), as evaluate calls it
BindParam ==
    /\ ~prObs.bound
    /\ LET b == bind(pr.self, pr.provided)
       IN prObs' = [prObs EXCEPT !.bound = TRUE, !.dep = b.dep, !.bind_asked = b.asked]
    /\ UNCHANGED <<pr, stackVars, scopeVars, regVars, bindVars, graphVars, callVars,
                   facVars, evalVars, nestVars, depVars>>

\* r.resolve(ctx), as iresolve_args and iresolve_kwds call it
ResolveParam ==
    /\ ~prObs.resolved
    /\ LET r == resolve_param(pr.self, pr.provided, 1, "")
       IN prObs' = [prObs EXCEPT !.resolved = TRUE, !.triple = r.triple,
                                 !.find_asked = r.asked]
    /\ UNCHANGED <<pr, stackVars, scopeVars, regVars, bindVars, graphVars, callVars,
                   facVars, evalVars, nestVars, depVars>>

ParamNext ==
    \/ BindParam
    \/ ResolveParam

\* ================================================================
\*  Evaluation of a signature
\* ================================================================
\* the kinds of parameter evaluate tells apart: positional-only, var-positional
\* (one ParamResolver per entry of the partial *args), and the keyword kinds
ParamKinds == {"pos", "var", "kw"}

\* a parameter with its partial argument, and whether the scope provides its
\* dependency
Param(kind, val, default, annotation, provided) ==
    [kind |-> kind, value |-> val, default |-> default, annotation |-> annotation,
     provided |-> provided]

\* the parameters the signatures are made of: a fixed value, a provided
\* dependency without and with a default, a default whose dependency is not
\* provided, nothing usable (annotation not provided, marker default not
\* provided)
ParamShapes ==
    {Param(k, "literal", "empty", "type", TRUE) : k \in {"pos", "kw"}}
      \cup {Param(k, "empty", "empty", "type", TRUE) : k \in {"pos", "kw"}}
      \cup {Param(k, "empty", "literal", "type", TRUE) : k \in {"pos", "kw"}}
      \cup {Param(k, "empty", "literal", "type", FALSE) : k \in {"pos", "kw"}}
      \cup {Param(k, "empty", "empty", "type", FALSE) : k \in {"pos", "kw"}}
      \cup {Param(k, "empty", "marker", "empty", FALSE) : k \in {"pos", "kw"}}
      \cup {Param("var", "literal", "empty", "empty", FALSE),
            Param("var", "marker", "empty", "empty", TRUE),
            Param("var", "marker", "empty", "empty", FALSE)}

\* the order of a signature: positional-only parameters first, the entries of
\* the one var-positional parameter next to each other
SignatureOrder(params) ==
    /\ \A i, j \in 1..Len(params) : (i < j /\ params[j].kind = "pos") => (params[i].kind = "pos")
    /\ \A i, j, k \in 1..Len(params) :
          (i < k /\ k < j /\ params[i].kind = "var" /\ params[j].kind = "var")
              => (params[k].kind = "var")

\* the names of the parameters, by position in the signature
ParamNames == <<"a", "b", "c", "d", "e", "f">>

\* the keys the scope provides, as one parameter sees them
ProvidedFor(p, r) == IF p.provided THEN {r.dependency} ELSE {}

\* `if skip_pos is False:`
NeverSkipped(skip_pos) == FALSE
Skipped(skip_pos) == skip_pos

\* `elif r.has_value or r.has_default:`
HasValueOnly(r) == r.has_value
HasValueOrDefault(r) == r.has_value \/ r.has_default

\* the loop of FactoryResolver.evaluate over iter_param_resolvers()
RECURSIVE EvaluateLoop(_, _, _)
EvaluateLoop(params, i, acc) ==
    IF i > Len(params) THEN acc
    ELSE LET p == params[i]
             n == ParamNames[i]
             r == ParamResolver(p.value, p.default, p.annotation)
             dep == bind(r, ProvidedFor(p, r)).dep
         IN IF p.kind \in {"pos", "var"}
            THEN IF ~Skipped(acc.skip_pos)
                 THEN IF dep # "None"
                      THEN EvaluateLoop(params, i + 1,
                               [acc EXCEPT !.args = Append(@, [i |-> i, r |-> r]),
                                           !.deps = Append(@, [dep |-> dep, n |-> n])])
                      ELSE IF HasValueOrDefault(r)
                      THEN EvaluateLoop(params, i + 1,
                               [acc EXCEPT !.args = Append(@, [i |-> i, r |-> r])])
                      ELSE EvaluateLoop(params, i + 1, [acc EXCEPT !.skip_pos = TRUE])
                 ELSE EvaluateLoop(params, i + 1, acc)
            ELSE IF r.has_value
            THEN EvaluateLoop(params, i + 1,
                     [acc EXCEPT !.vals = Append(@, [name |-> n, value |-> Val("fixed", 0, n)])])
            ELSE IF dep # "None"
            THEN EvaluateLoop(params, i + 1,
                     [acc EXCEPT !.kwds = Append(@, [name |-> n, i |-> i, r |-> r]),
                                 !.deps = Append(@, [dep |-> dep, n |-> n])])
            ELSE EvaluateLoop(params, i + 1, acc)

\* FactoryResolver.evaluate(injector)
evaluate(params) ==
    LET acc == EvaluateLoop(params, 1,
                   [args |-> <<>>, kwds |-> <<>>, vals |-> <<>>, deps |-> <<>>,
                    skip_pos |-> FALSE])
    IN [done |-> TRUE, args |-> acc.args, kwds |-> acc.kwds, vals |-> acc.vals,
        deps |-> acc.deps]

\* iresolve_args over the ParamResolvers evaluate kept: the branch of resolve
\* each takes with the scope's context
ResolveKinds(params, args) ==
    [k \in 1..Len(args) |->
        ResolveKind(args[k].r, ProvidedFor(params[args[k].i], args[k].r))]

\* iresolve_kwds over the (name, ParamResolver) pairs evaluate kept
RECURSIVE ResolveKwds(_, _)
ResolveKwds(params, kwds) ==
    IF kwds = <<>> THEN <<>>
    ELSE LET k == Head(kwds)
             t == resolve_param(k.r, ProvidedFor(params[k.i], k.r), 0, k.name).triple
         IN (IF t.fn = _EMPTY THEN <<>> ELSE <<[name |-> k.name, fn |-> t.fn]>>)
               \o ResolveKwds(params, Tail(kwds))

NoSignature == [params |-> <<>>]
NoEvaluation == [done |-> FALSE, args |-> <<>>, kwds |-> <<>>, vals |-> <<>>, deps |-> <<>>]
NoEvalCall == [done |-> FALSE, kind |-> "none", outcome |-> "none",
               pos |-> <<>>, kw |-> <<>>, calls |-> <<>>]

EvalIdle ==
    /\ sig = NoSignature
    /\ ev = NoEvaluation
    /\ ecall = NoEvalCall

\* a FactoryResolver of a plain function: its signature with the partial
\* arguments bound to it
EvalInit ==
    /\ \E params \in SeqsUpTo(ParamShapes, MaxParams) :
          /\ SignatureOrder(params)
          /\ sig = [params |-> params]
    /\ ev = NoEvaluation
    /\ ecall = NoEvalCall

\* FactoryResolver.__call__(injector): self.evaluate(injector)
Evaluate ==
    /\ ~ev.done
    /\ ev' = evaluate(sig.params)
    /\ UNCHANGED <<sig, ecall, stackVars, scopeVars, regVars, bindVars, graphVars, callVars,
                   facVars, paramVars, nestVars, depVars>>

\* provider(ctx) resolves the ParamResolvers kept, and the closure it returns
\* is called
EvalCall ==
    /\ ev.done
    /\ ~ecall.done
    /\ LET w == [is_async |-> FALSE,
                 kind |-> make_resolver(sig.params = <<>>, ev.args, ev.kwds),
                 args |-> iresolve_args(ResolveKinds(sig.params, ev.args), 1),
                 kwds |-> ResolveKwds(sig.params, ev.kwds),
                 vals |-> ev.vals]
           r == WrapFunc(w, FALSE, {}, <<>>, <<>>)
       IN ecall' = [done |-> TRUE, kind |-> w.kind, outcome |-> r.outcome,
                    pos |-> r.pos, kw |-> r.kw, calls |-> r.calls]
    /\ UNCHANGED <<sig, ev, stackVars, scopeVars, regVars, bindVars, graphVars, callVars,
                   facVars, paramVars, nestVars, depVars>>

EvalNext ==
    \/ Evaluate
    \/ EvalCall

\* ================================================================
\*  Closures whose producer resolves another closure of the scope
\* ================================================================
\* "outer" is a closure whose producer resolves "inner" before it returns;
\* both are built by decorators.singleton or decorators.resource for a scope
\* in the parallel mode (ctx.lock() is not None)
Nested == {"outer", "inner"}

Frame(c, pc) == [c |-> c, pc |-> pc]
Top(t) == Last(frames[t])
SetTop(t, pc) == frames' = [frames EXCEPT ![t][Len(frames[t])].pc = pc]
At(t, pc) == frames[t] # <<>> /\ Top(t).pc = pc

NestIdle ==
    /\ scopeLock = [reentrant |-> FALSE, owner |-> None, depth |-> 0]
    /\ cached = [c \in Nested |-> None]
    /\ frames = [t \in Threads |-> <<>>]
    /\ resolves = 0

\* ctx.lock(): the scope's mutex, which may or may not be re-entrant
NestInit ==
    /\ \E reentrant \in BOOLEAN :
          scopeLock = [reentrant |-> reentrant, owner |-> None, depth |-> 0]
    /\ cached = [c \in Nested |-> None]
    /\ frames = [t \in Threads |-> <<>>]
    /\ resolves = 0

NestOthers == <<stackVars, scopeVars, regVars, bindVars, graphVars, callVars, resolverVars, depVars>>

\* a thread resolves one of the closures: run() is called
NestStart(t, c) ==
    /\ frames[t] = <<>>
    /\ resolves < MaxCalls
    /\ resolves' = resolves + 1
    /\ frames' = [frames EXCEPT ![t] = <<Frame(c, "check1")>>]
    /\ UNCHANGED <<scopeLock, cached, NestOthers>>

\* `if value is Missing:` (the fast path)
NestCheck1(t) ==
    /\ At(t, "check1")
    /\ SetTop(t, IF cached[Top(t).c] = None THEN "acquire" ELSE "return")
    /\ UNCHANGED <<scopeLock, cached, resolves, NestOthers>>

\* the lock can be taken by thread t: it is free, or it is re-entrant and t
\* holds it
MayAcquire(lk, t) == CanAcquire(lk.owner) \/ (lk.reentrant /\ lk.owner = t)

\* `with lock:` is entered
NestAcquire(t) ==
    /\ At(t, "acquire")
    /\ MayAcquire(scopeLock, t)
    /\ scopeLock' = [scopeLock EXCEPT !.owner = t, !.depth = @ + 1]
    /\ SetTop(t, "check2")
    /\ UNCHANGED <<cached, resolves, NestOthers>>

\* `if value is Missing:` under the lock
NestCheck2(t) ==
    /\ At(t, "check2")
    /\ SetTop(t, SlowPath(cached[Top(t).c]))
    /\ UNCHANGED <<scopeLock, cached, resolves, NestOthers>>

\* func() is called; the producer of "outer" resolves "inner": run() of
\* "inner" is called on the same thread, inside the with block of "outer"
NestCall(t) ==
    /\ At(t, "call")
    /\ IF Top(t).c = "outer"
       THEN frames' = [frames EXCEPT
                          ![t] = Append([@ EXCEPT ![Len(@)].pc = "in_func"],
                                        Frame("inner", "check1"))]
       ELSE SetTop(t, "store")
    /\ UNCHANGED <<scopeLock, cached, resolves, NestOthers>>

\* the producer of "outer" has its dependency and returns
NestFuncReturns(t) ==
    /\ At(t, "in_func")
    /\ SetTop(t, "store")
    /\ UNCHANGED <<scopeLock, cached, resolves, NestOthers>>

\* `value = func()` / `value = ctx.enter(func())`
NestStore(t) ==
    /\ At(t, "store")
    /\ cached' = [cached EXCEPT ![Top(t).c] = t]
    /\ SetTop(t, "release")
    /\ UNCHANGED <<scopeLock, resolves, NestOthers>>

\* the with block is left
NestRelease(t) ==
    /\ At(t, "release")
    /\ scopeLock' = [scopeLock EXCEPT !.depth = @ - 1,
                                      !.owner = IF scopeLock.depth = 1 THEN None ELSE @]
    /\ SetTop(t, "return")
    /\ UNCHANGED <<cached, resolves, NestOthers>>

\* `return value`: run() returns to its caller
NestReturn(t) ==
    /\ At(t, "return")
    /\ frames' = [frames EXCEPT ![t] = Front(@)]
    /\ UNCHANGED <<scopeLock, cached, resolves, NestOthers>>

NestNext ==
    \/ \E t \in Threads, c \in Nested : NestStart(t, c)
    \/ \E t \in Threads : NestCheck1(t)
    \/ \E t \in Threads : NestAcquire(t)
    \/ \E t \in Threads : NestCheck2(t)
    \/ \E t \in Threads : NestCall(t)
    \/ \E t \in Threads : NestFuncReturns(t)
    \/ \E t \in Threads : NestStore(t)
    \/ \E t \in Threads : NestRelease(t)
    \/ \E t \in Threads : NestReturn(t)

\* ================================================================
\*  An IocContainer and the scopes that depend on it
\* ================================================================
Scopes == 1..NScopes
Contexts == {1, 2}      \* the InjectorContext a scope may be bound to

NoAdd == [scope |-> None, outcome |-> "none", dependants |-> <<>>, _context |-> None]

DependantsIdle ==
    /\ scopeContext = <<>>
    /\ dependants = <<>>
    /\ _context = None
    /\ lastAdd = NoAdd

\* IocContainer(): dependants = orderedset(), _context = None; every scope
\* has its own _context, set or not
DependantsInit ==
    /\ scopeContext \in [Scopes -> {None} \cup Contexts]
    /\ dependants = <<>>
    /\ _context = None
    /\ lastAdd = NoAdd

\* `(ctx := self._context) and (dctx := scope._context) and dctx != ctx`
NoConflict(ctx, dctx) == FALSE
Conflict(ctx, dctx) == ctx # None /\ dctx # None /\ dctx # ctx

\* orderedset.add
orderedset_add(set, x) == IF x \in Range(set) THEN set ELSE Append(set, x)

\* AbcIocContainer.add_dependant(scope): the ValueError, or the dependants
\* with the scope added
AbcIocContainer_add_dependant(deps, ctx, scope) ==
    IF Conflict(ctx, scopeContext[scope])
    THEN [raised |-> TRUE, dependants |-> deps]
    ELSE [raised |-> FALSE, dependants |-> orderedset_add(deps, scope)]

\* `if self._context is None: self._context = scope._context`
ContextAfter(ctx, scope) == IF ctx = None THEN scopeContext[scope] ELSE ctx

\* IocContainer.add_dependant(scope)
IocContainer_add_dependant(scope) ==
    LET r == AbcIocContainer_add_dependant(dependants, _context, scope) IN
    /\ dependants' = r.dependants
    /\ _context' = IF r.raised THEN _context ELSE ContextAfter(_context, scope)
    /\ lastAdd' = [scope |-> scope,
                   outcome |-> IF r.raised THEN "ValueError" ELSE "added",
                   dependants |-> dependants, _context |-> _context]
    /\ UNCHANGED <<scopeContext, stackVars, scopeVars, regVars, bindVars, graphVars, callVars,
                   resolverVars, nestVars>>

DependantsNext ==
    \E scope \in Scopes : IocContainer_add_dependant(scope)

\* ================================================================
\*  Specifications
\* ================================================================
LateIdle == NestIdle /\ DependantsIdle
ResolversIdle == FactoryIdle /\ EvalIdle /\ ParamIdle /\ LateIdle
RestIdle == GraphIdle /\ CallIdle /\ ResolversIdle

StackSpecInit == StackInit /\ ScopeIdle /\ RegIdle /\ BindIdle /\ RestIdle
SpecAsyncStack == StackSpecInit /\ [][AsyncStackNext]_vars
SpecStack == StackSpecInit /\ [][StackNext]_vars

ScopeSpecInit == StackInit /\ ScopeInit /\ RegIdle /\ BindIdle /\ RestIdle
SpecScope == ScopeSpecInit /\ [][ScopeNext]_vars

RegSpecInit == StackInit /\ ScopeIdle /\ RegInit /\ BindIdle /\ RestIdle
SpecRegistry == RegSpecInit /\ [][RegNext]_vars

BindSpecInit == StackInit /\ ScopeIdle /\ BindRegInit /\ BindInit /\ RestIdle
SpecBind == BindSpecInit /\ [][BindNext]_vars

GraphSpecInit == StackInit /\ ScopeIdle /\ RegIdle /\ BindIdle /\ GraphInit /\ CallIdle /\ ResolversIdle
SpecGraph == GraphSpecInit /\ [][GraphNext]_vars
SpecCompare == GraphSpecInit /\ [][CompareNext]_vars

CallSpecInit == StackInit /\ ScopeIdle /\ RegIdle /\ BindIdle /\ GraphIdle /\ CallInit /\ ResolversIdle
SpecCall == CallSpecInit /\ [][CallNext]_vars

FactorySpecInit ==
    /\ StackInit /\ ScopeIdle /\ RegIdle /\ BindIdle /\ GraphIdle /\ CallIdle
    /\ FactoryInit /\ EvalIdle /\ ParamIdle /\ LateIdle
SpecFactory == FactorySpecInit /\ [][FactoryNext]_vars

EvalSpecInit ==
    /\ StackInit /\ ScopeIdle /\ RegIdle /\ BindIdle /\ GraphIdle /\ CallIdle
    /\ FactoryIdle /\ EvalInit /\ ParamIdle /\ LateIdle
SpecEval == EvalSpecInit /\ [][EvalNext]_vars

ParamSpecInit ==
    /\ StackInit /\ ScopeIdle /\ RegIdle /\ BindIdle /\ GraphIdle /\ CallIdle
    /\ FactoryIdle /\ EvalIdle /\ ParamInit /\ LateIdle
SpecParam == ParamSpecInit /\ [][ParamNext]_vars

NestSpecInit ==
    /\ StackInit /\ ScopeIdle /\ RegIdle /\ BindIdle /\ GraphIdle /\ CallIdle
    /\ FactoryIdle /\ EvalIdle /\ ParamIdle /\ NestInit /\ DependantsIdle
SpecNested == NestSpecInit /\ [][NestNext]_vars

DependantsSpecInit ==
    /\ StackInit /\ ScopeIdle /\ RegIdle /\ BindIdle /\ GraphIdle /\ CallIdle
    /\ FactoryIdle /\ EvalIdle /\ ParamIdle /\ NestIdle /\ DependantsInit
SpecDependants == DependantsSpecInit /\ [][DependantsNext]_vars

\* ================================================================
\*  Claims about the closures
\* ================================================================

\* the producer of closure c completed at most once, and every run() that has
\* returned handed out the product that is stored
OnceAndSame(c) ==
    /\ invoked[c] <= failed[c] + 1
    /\ \A i \in 1..Len(returned[c]) :
          /\ returned[c][i] # None
          /\ returned[c][i] = value[c]
          /\ invoked[c] = failed[c] + 1
    /\ \A i, j \in 1..Len(returned[c]) : returned[c][i] = returned[c][j]

\* C1: with a scope lock, under every interleaving of the threads' run() calls
\* the singleton's producer returns normally at most once (exactly once as soon
\* as any caller has returned) and every caller returns that one product.
C1_SingletonOnceUnderLock == hasLock => OnceAndSame("sng")

\* a thread that missed on the fast path found the value stored by another
\* thread when it re-checked under the lock, after that other thread returned
C1_Witness ==
    /\ hasLock
    /\ Len(returned["sng"]) >= 1
    /\ \E t \in Threads :
          thr[t].cur = "sng" /\ thr[t].pc = "release" /\ thr[t].tmp = None

\* C2: without a lock (single-threaded mode) any number of run() calls in
\* sequence invoke the factory once and all return the identical product.
C2_SingletonOnceSequential == ~hasLock => OnceAndSame("sng")

C2_Witness ==
    /\ ~hasLock
    /\ Len(returned["sng"]) >= 3
    /\ invoked["sng"] = 1

Pushes(r) == {i \in 1..Len(enterLog) : enterLog[i].closure = r}

\* C3: for every resource closure the production (factory and __enter__)
\* completes at most once however often it is resolved, its teardown is pushed
\* exactly once, and closing the scope's exit stack runs that teardown exactly
\* once, after the teardowns of all resources entered later.
C3_ResourceOnceTeardownLifo ==
    \A r \in Resources :
        /\ invoked[r] <= failed[r] + 1
        /\ Cardinality(Pushes(r)) <= 1
        /\ (value[r] # None) => (Cardinality(Pushes(r)) = 1)
        /\ \A n \in 1..Len(returned[r]) :
              returned[r][n] = value[r] /\ value[r] # None
        /\ \A i \in Pushes(r) :
              /\ ran[enterLog[i].id] = IF closes >= 1 THEN 1 ELSE 0
              /\ (closes = 1) =>
                    \E k \in 1..Len(closeRec.log) :
                        /\ closeRec.log[k].id = enterLog[i].id
                        /\ \A j \in (i + 1)..Len(enterLog) :
                              \E m \in 1..(k - 1) : closeRec.log[m].id = enterLog[j].id

\* both resources were entered, one of them was resolved twice, and the scope
\* has been closed
C3_Witness ==
    /\ closes = 1
    /\ Len(enterLog) = 2
    /\ \E r \in Resources : Len(returned[r]) >= 2

\* ================================================================
\*  Claims about the exit stack
\* ================================================================

AllSync(s) == \A i \in 1..Len(s) : s[i].is_sync
Ids(s) == [i \in 1..Len(s) |-> s[i].id]

\* C4: closing a stack of callbacks registered by push, enter or callback runs
\* them newest first, each exactly once, and empties the stack; a further close
\* invokes nothing.
C4_CloseLifoEachOnce ==
    /\ \A i \in DOMAIN ran : ran[i] <= 1
    /\ (closes >= 1 /\ AllSync(pushed)) =>
          /\ stack = <<>>
          /\ \A i \in 1..Len(pushed) : ran[pushed[i].id] = 1
          /\ (closes = 1) => (Ids(closeRec.log) = Reverse(Ids(pushed)))
          /\ (closes >= 2) => (closeRec.log = <<>>)

\* three callbacks, registered through push, enter and callback, closed twice
C4_Witness ==
    /\ closes = 2
    /\ Len(pushed) = 3
    /\ AllSync(pushed)
    /\ enterRec.outcome = "entered"
    /\ \E i, j \in 1..3 : pushed[i].wrapper = "cb" /\ pushed[j].wrapper = "exit"

Raisers(s) == {i \in 1..Len(s) : s[i].beh \in {"raise", "raisenested"}}
Suppressors(s) == {i \in 1..Len(s) : s[i].wrapper = "exit" /\ s[i].beh = "true"}

\* C5: when a synchronous callback raises during close, all remaining
\* callbacks are still invoked and the stack ends empty; close raises only
\* after the last of them, and it raises the exception of the raising callback
\* that ran last unless a callback run after it suppressed it.
C5_RaiseAfterAllCallbacks ==
    (closes = 1 /\ AllSync(pushed) /\ Raisers(pushed) # {}) =>
        LET last == CHOOSE i \in Raisers(pushed) : \A j \in Raisers(pushed) : i <= j
            suppressedAfter == \E i \in Suppressors(pushed) : i < last
        IN /\ stack = <<>>
           /\ Len(closeRec.log) = Len(pushed)
           /\ closeRec.outcome = IF suppressedAfter THEN "return" ELSE "raise"
           /\ ~suppressedAfter =>
                 closeRec.exc = closeRec.log[Len(pushed) - last + 1].raised

\* resources A, B, C entered in that order, B's teardown raises, close() raises
C5_Witness ==
    /\ closes = 1
    /\ Len(pushed) = 3
    /\ \A i \in 1..3 : pushed[i].wrapper = "exit"
    /\ pushed[1].beh = "false" /\ pushed[2].beh = "raise" /\ pushed[3].beh = "false"
    /\ closeRec.passed = None
    /\ closeRec.outcome = "raise"
    /\ Len(closeRec.log) = 3

RECURSIVE InContextChain(_, _, _)
InContextChain(ctx, from, target) ==
    /\ from # None
    /\ (from = target \/ InContextChain(ctx, ctx[from], target))

\* C6: whenever a callback raised while an earlier exception was pending, the
\* exception that propagates from __exit__ reaches that earlier exception
\* through its __context__ chain, whatever the caller was handling.
C6_EarlierExceptionInContext ==
    (closeRec.outcome = "raise") =>
        \A e \in closeRec.linked : InContextChain(closeRec.ctx, closeRec.exc, e)

\* ================================================================
\*  Claims about the bindings cache
\* ================================================================

BindersIdle == \A t \in Threads : binder[t].pc = "idle"

\* C7: all lookups of a key return the identical object; the entry stored
\* first for a key stays in the map unchanged; and when lookups do not overlap
\* the provider is resolved and bound exactly once per key.
C7_BindingCachedOnce ==
    \A k \in RegKeys :
        /\ \A i, j \in 1..Len(lookups[k]) : lookups[k][i] = lookups[k][j]
        /\ (storeLog[k] # <<>>) => (bmap[k] = storeLog[k][1].entry)
        /\ (lookups[k] # <<>>) => (bmap[k].has /\ lookups[k][1] = bmap[k])
        /\ sequential =>
              /\ bindCount[k] <= 1
              /\ (lookups[k] # <<>>) => (bindCount[k] = 1)

\* a resolver for "K" was bound and three lookups, none overlapping, returned it
C7_Witness ==
    /\ sequential
    /\ Len(lookups["K"]) >= 3
    /\ bmap["K"].provider # None

\* C8 as stated: after two binders of one key have both stored, the map
\* holds the resolver of the binder that stored last.
C8_LaterStoreWins ==
    \A k \in RegKeys :
        (Len(storeLog[k]) >= 2 /\ BindersIdle) => (bmap[k] = Last(storeLog[k]).entry)

\* C8 as amended: when several binders missed on one key, the resolver stored
\* first stays in the map, every lookup (the later binders' included) returns
\* it, and all binders bound the same provider.
C8_FirstStoreWins ==
    \A k \in RegKeys :
        (Len(storeLog[k]) >= 2) =>
            /\ bmap[k] = storeLog[k][1].entry
            /\ \A i \in 1..Len(lookups[k]) : lookups[k][i] = storeLog[k][1].entry
            /\ \A i \in 1..Len(storeLog[k]) :
                  storeLog[k][i].entry.provider = storeLog[k][1].entry.provider

\* two threads missed on "K" together, bound two distinct resolvers and stored
C8_Witness ==
    /\ BindersIdle
    /\ Len(storeLog["K"]) = 2
    /\ storeLog["K"][1].thread # storeLog["K"][2].thread
    /\ storeLog["K"][1].entry.provider # None
    /\ storeLog["K"][1].entry.obj # storeLog["K"][2].entry.obj

\* ================================================================
\*  Claims about provider resolution
\* ================================================================

\* the key whose list a resolve of a key used: its own, or its origin's
UsedKey(key) == IF bindings[key] # <<>> THEN key ELSE get_origin(key)
UsedList(key) == IF UsedKey(key) \in RegKeys THEN bindings[UsedKey(key)] ELSE <<>>
Bindable(key) == {p \in Range(UsedList(key)) : bindable[p]}
Retained(key) ==
    IF \E p \in Bindable(key) : ~is_default[p]
    THEN {p \in Bindable(key) : ~is_default[p]}
    ELSE Bindable(key)
Used(r) == IF r.found THEN {r.primary} \cup Range(r.subs) ELSE {}
Pos(stk, p) == CHOOSE i \in 1..Len(stk) : stk[i] = p

ResolvedKey == resolved.asked /\ resolved.dep.kind = "key"

\* C9: if a bindable provider of the key is non-default, neither the primary
\* nor any substitute is a default; defaults are used only when every bindable
\* provider of the key is a default (and then all of them are).
C9_DefaultsOnlyWithoutNonDefault ==
    ResolvedKey =>
        LET key == resolved.dep.key
            used == Used(resolved.result)
        IN /\ (\E p \in Bindable(key) : ~is_default[p]) => (\A q \in used : ~is_default[q])
           /\ (\E q \in used : is_default[q]) => (\A p \in Bindable(key) : is_default[p])
           /\ used = Retained(key)

\* a key with a bindable default and a bindable non-default provider was resolved
C9_Witness ==
    /\ ResolvedKey
    /\ resolved.result.found
    /\ \E p, q \in Bindable(resolved.dep.key) : is_default[p] /\ ~is_default[q]

\* C10 as stated: the retained provider that was registered most recently is
\* the primary.
C10_LastRegistrationWins ==
    (ResolvedKey /\ resolved.result.found) =>
        LET key == UsedKey(resolved.dep.key)
        IN (lastRegistered[key] \in Retained(resolved.dep.key)) =>
              (resolved.result.primary = lastRegistered[key])

\* C10 as amended: the retained provider that joined the key's list last is
\* the primary, the others follow newest first as the substitutes, and
\* substitute is called exactly when there are others.
C10_NewestInListIsPrimary ==
    (ResolvedKey /\ resolved.result.found) =>
        LET r == resolved.result
            stk == UsedList(resolved.dep.key)
            all == <<r.primary>> \o r.subs
        IN /\ Range(all) = Retained(resolved.dep.key)
           /\ \A i, j \in 1..Len(all) : (i < j) => (Pos(stk, all[i]) > Pos(stk, all[j]))
           /\ r.substituted <=> (Len(all) > 1)

\* three providers of one key were retained: a primary and two substitutes
C10_Witness ==
    /\ ResolvedKey
    /\ resolved.result.substituted
    /\ Len(resolved.result.subs) = 2

\* ================================================================
\*  Claims about the inclusion graph
\* ================================================================

Succ(c) == Range(_included[c])
RECURSIVE Grow(_, _)
Grow(S, n) == IF n = 0 THEN S ELSE Grow(S \cup UNION {Succ(c) : c \in S}, n - 1)
\* the containers reachable from a through include edges, a itself included
Reachable(a) == Grow({a}, NContainers)
OnCycle(c) == c \in Grow(Succ(c), NContainers)
Acyclic == \A c \in Containers : ~OnCycle(c)
CyclicFrom(a) == \E c \in Reachable(a) : OnCycle(c)
NoDuplicates(keys) == \A i, j \in 1..Len(keys) : (i # j) => (keys[i] # keys[j])
\* the containers the traversal visited, one per _dro_entries_ call, in order
Visited(entries) == SelectSeq(entries, LAMBDA e : e.own)

\* C11: including again containers that are already included leaves the
\* ordered set included as it was (same members, same order), and no include
\* ever stores a container twice.
C11_IncludeIdempotent ==
    /\ \A c \in Containers : NoDuplicates(_included[c])
    /\ (lastInclude.target # None /\ Range(lastInclude.args) \subseteq Range(lastInclude.before))
          => (_included[lastInclude.target] = lastInclude.before)

\* a container holding two others was asked to include its first one again
C11_Witness ==
    /\ lastInclude.target # None
    /\ Len(lastInclude.before) = 2
    /\ lastInclude.args = <<lastInclude.before[1]>>

\* C12: after any sequence of include calls the inclusion graph is acyclic.
C12_InclusionGraphAcyclic == Acyclic

\* C13: consuming the traversal of a container whose inclusion graph has a
\* cycle ends with the inclusion-cycle error, not at the interpreter's limit.
C13_CycleDetectedByDro ==
    (obs.kind = "dro" /\ CyclicFrom(obs.self)) => (obs.result = "InclusionCycleError")

\* C14: on an acyclic graph the traversal visits every reachable container
\* exactly once (and no other).
C14_EachReachableOnce ==
    (obs.kind = "dro" /\ ~CyclicFrom(obs.self)) =>
        LET v == Visited(obs.entries)
        IN /\ {v[i].val : i \in 1..Len(v)} = Reachable(obs.self)
           /\ \A i, j \in 1..Len(v) : (i # j) => (v[i].val # v[j].val)

\* C15 as stated: the container itself is the last container of its traversal.
C15_SelfLast ==
    (obs.kind = "dro" /\ ~CyclicFrom(obs.self)) =>
        (Last(Visited(obs.entries)).val = obs.self)

\* C15 as amended: the container itself is the first container of its
\* traversal, and every container it transitively includes comes after it.
C15_SelfFirst ==
    (obs.kind = "dro" /\ ~CyclicFrom(obs.self)) =>
        LET e == obs.entries
        IN /\ e # <<>>
           /\ e[1].own /\ e[1].val = obs.self
           /\ \A i \in 2..Len(e) : e[i].val # obs.self
           /\ \A d \in Reachable(obs.self) \ {obs.self} :
                 \E i \in 2..Len(e) : e[i].own /\ e[i].val = d

\* the traversal of a container that reaches two others
C15_Witness ==
    /\ obs.kind = "dro"
    /\ ~CyclicFrom(obs.self)
    /\ obs.result = "done"
    /\ Cardinality(Reachable(obs.self)) = 3

\* C16: on an acyclic graph includes is exactly reachability through include
\* edges: reflexive, transitive, and false for a container that is not reachable.
C16_IncludesIsReachability ==
    Acyclic =>
        LET inc == [a \in Containers |-> [b \in Containers |-> includes(a, b, MaxDepth)]]
            reach == [a \in Containers |-> Reachable(a)]
        IN /\ \A a, b \in Containers :
                 inc[a][b] = IF b \in reach[a] THEN "True" ELSE "False"
           /\ \A c \in Containers : inc[c][c] = "True"
           /\ \A a, b, c \in Containers :
                 (inc[a][b] = "True" /\ inc[b][c] = "True") => (inc[a][c] = "True")
           /\ (obs.kind = "includes") =>
                 (obs.result = IF obs.other \in reach[obs.self] THEN "True" ELSE "False")

\* a container was found to include one that it reaches only through another
C16_Witness ==
    /\ Acyclic
    /\ obs.kind = "includes"
    /\ obs.result = "True"
    /\ obs.other # obs.self
    /\ obs.other \notin Succ(obs.self)

\* C17: containers are keys by identity: every container passed to include
\* is in included, also next to a distinct container of the same name.
C17_SameNameKeptApart ==
    \A c \in Containers :
        /\ everIncluded[c] = Range(_included[c])
        /\ NoDuplicates(_included[c])

\* two distinct containers with one name are both included in a third
C17_Witness ==
    \E c, x, y \in Containers :
        /\ x # y /\ name[x] = name[y] /\ c # x /\ c # y
        /\ {x, y} \subseteq Range(_included[c])

\* ================================================================
\*  Claims about the Callable-factory
\* ================================================================

\* the injected positional arguments, from the kinds of the parameters: those
\* before the first parameter whose dependency is not found
NInjected ==
    CHOOSE n \in 0..Len(fres._args) :
        /\ \A i \in 1..n : fres._args[i] # "missing"
        /\ (n < Len(fres._args)) => (fres._args[n + 1] = "missing")
InjectedAt(i) ==
    IF fres._args[i] = "value" THEN Val("fixed", i, "")
    ELSE IF fres._args[i] \in {"dep", "dep_default"} THEN Val("dep", i, "")
    ELSE Val("default", i, "")
InjectedAll == [i \in 1..NInjected |-> InjectedAt(i)]
\* how often the resolver of positional parameter i / keyword name n was called
PosCalls(i) == Cardinality({j \in 1..Len(fcall.calls) :
                              fcall.calls[j].name = "" /\ fcall.calls[j].at = i})
KwCalls(n) == Cardinality({j \in 1..Len(fcall.calls) : fcall.calls[j].name = n})
IsDep(i) == fres._args[i] \in {"dep", "dep_default"}
Got(n) == {j \in 1..Len(fcall.got) : fcall.got[j].name = n}

\* C18 as stated: in the default mode func receives all injected positional
\* arguments first and the user's after them.
C18_InjectedThenUser ==
    (fcall.done /\ ~fres.is_partial) => (fcall.pos = InjectedAll \o fcall.a)

\* C18 as amended: in the default mode func receives the user's positional
\* arguments first, followed by the injected arguments of the positions after
\* them; the injected arguments of the positions the user filled are not
\* passed and their resolvers are not called.
C18_UserThenRemainingInjected ==
    (fcall.done /\ ~fres.is_partial) =>
        /\ fcall.pos = fcall.a \o SubSeq(InjectedAll, Len(fcall.a) + 1, NInjected)
        /\ \A i \in 1..Len(fres._args) :
              PosCalls(i) = IF i > Len(fcall.a) /\ i <= NInjected /\ IsDep(i) THEN 1 ELSE 0

\* three injected parameters, the first a dependency, and two user arguments
C18_Witness ==
    /\ fcall.done /\ ~fres.is_partial
    /\ Len(fcall.a) = 2
    /\ NInjected = 3
    /\ fres._args[1] = "dep" /\ fres._args[3] = "dep"

\* C19 as stated: in partial mode func receives the user's positional
\* arguments first and all injected arguments after them.
C19_UserThenInjected ==
    (fcall.done /\ fres.is_partial) => (fcall.pos = fcall.a \o InjectedAll)

\* C19 as amended: in partial mode func receives all injected positional
\* arguments first, followed by the user's; every injected argument is passed
\* and each dependency's resolver is called once.
C19_PartialInjectedThenUser ==
    (fcall.done /\ fres.is_partial) =>
        /\ fcall.pos = InjectedAll \o fcall.a
        /\ \A i \in 1..Len(fres._args) :
              PosCalls(i) = IF i <= NInjected /\ IsDep(i) THEN 1 ELSE 0

\* partial mode, two injected parameters or more and two user arguments
C19_Witness ==
    /\ fcall.done /\ fres.is_partial
    /\ Len(fcall.a) = 2
    /\ NInjected >= 2
    /\ fres._args[1] = "dep"

\* C20: in either mode a keyword the user passes reaches func exactly once,
\* with the user's value, whether the name has a fixed value or an injected
\* dependency, and the resolver of that dependency is not called; the other
\* names keep their fixed or injected value.
C20_UserKeywordOverrides ==
    fcall.done =>
        /\ fcall.outcome = "returned"
        /\ \A n \in Names :
              IF HasName(fcall.kw, n)
              THEN /\ Cardinality(Got(n)) = 1
                   /\ \A j \in Got(n) : fcall.got[j].value = Val("user", 0, n)
                   /\ KwCalls(n) = 0
              ELSE IF fres.kw[n] = "fixed"
              THEN /\ Cardinality(Got(n)) = 1
                   /\ \A j \in Got(n) : fcall.got[j].value = Val("fixed", 0, n)
                   /\ KwCalls(n) = 0
              ELSE IF fres.kw[n] = "dep"
              THEN /\ Cardinality(Got(n)) = 1
                   /\ \A j \in Got(n) : fcall.got[j].value = Val("dep", 0, n)
                   /\ KwCalls(n) = 1
              ELSE Got(n) = {} /\ KwCalls(n) = 0

\* the user overrode a fixed keyword value and an injected keyword dependency
\* of a factory that also has injected positional parameters
C20_Witness ==
    /\ fcall.done
    /\ fres.kw["p"] = "fixed" /\ fres.kw["q"] = "dep"
    /\ HasName(fcall.kw, "p") /\ HasName(fcall.kw, "q")
    /\ fwrap.kind = "arg_kwd"

\* ================================================================
\*  Claims about the factory closures
\* ================================================================

\* the arguments of invocation e that a resolver produced
Produced(e) ==
    {v \in {e.pos[i] : i \in 1..Len(e.pos)} \cup {e.kw[i].value : i \in 1..Len(e.kw)} :
        v.src \in {"dep", "awaitable", "awaited"}}
TimesCalled(e, fn) == Len(SelectSeq(e.calls, LAMBDA c : c = fn))

\* C21: with no decorators every invocation of the closure calls func once
\* (the j-th invocation is the j-th call of func), calls the resolver of each
\* dependency exactly once and passes the products of those calls: no product
\* passed in one invocation is passed in another.
C21_FreshPerInvocation ==
    \A j \in 1..Len(frun.log) :
        LET e == frun.log[j] IN
        /\ e.nth = j
        /\ \A fn \in DepResolvers(fac._args, fac.kw) : TimesCalled(e, fn) = 1
        /\ Len(e.calls) = Cardinality(DepResolvers(fac._args, fac.kw))
        /\ Cardinality(Produced(e)) = Cardinality(DepResolvers(fac._args, fac.kw))
        /\ \A v \in Produced(e) : v.serial = j
        /\ \A k \in 1..Len(frun.log) :
              (k # j) => (Produced(e) \cap Produced(frun.log[k]) = {})

\* the closure of a plain function with two positional dependencies and no
\* keyword dependency was called twice
C21_Witness ==
    /\ Len(frun.log) = 2
    /\ ~fbound.is_async /\ fbound.kind = "arg"
    /\ Len(fac._args) >= 2
    /\ fac._args[1] = "dep" /\ fac._args[2] \in {"dep", "dep_default"}

\* what slot i of the factory yields: its fixed value if it has one, else the
\* product of its resolver, else its default
SlotHolds(i, v) ==
    /\ v.at = i
    /\ v.src = (IF fac._args[i] = "value" THEN "fixed"
                ELSE IF fac._args[i] = "default" THEN "default"
                ELSE IF PosResolver(i) \in fac.aw THEN "awaitable" ELSE "dep")

\* C23: in every invocation of a synchronous closure the resolvers of the
\* positional dependencies are called in declaration order, each slot holds
\* its fixed value, else its resolver's product, else its default, and every
\* positional resolver is called before any keyword resolver.
C23_PositionalInOrderBeforeKeywords ==
    \A j \in 1..Len(frun.log) :
        ~fbound.is_async =>
            LET e == frun.log[j] IN
            /\ Len(e.pos) = Len(fac._args)
            /\ \A i \in 1..Len(e.pos) : SlotHolds(i, e.pos[i])
            /\ \A a, b \in 1..Len(e.calls) :
                  /\ (a < b /\ e.calls[a].name = "" /\ e.calls[b].name = "")
                        => (e.calls[a].at < e.calls[b].at)
                  /\ (e.calls[a].name = "" /\ e.calls[b].name # "") => (a < b)

\* what slot i holds once the awaitables are awaited
AwaitedSlotHolds(i, v) ==
    /\ v.at = i
    /\ v.src = (IF fac._args[i] = "value" THEN "fixed"
                ELSE IF fac._args[i] = "default" THEN "default"
                ELSE IF PosResolver(i) \in fac.aw THEN "awaited" ELSE "dep")

\* C24: the list async_iargs returns, which the asynchronous closures pass to
\* func, has one element per slot and its i-th element is the value of slot
\* i (fixed value, synchronous product, awaited product or default), whichever
\* slots were awaitable and in whatever order the awaitables completed.
C24_AsyncArgsInSlotOrder ==
    \A j \in 1..Len(frun.log) :
        (fbound.is_async /\ fbound.kind \in {"arg", "arg_kwd"}) =>
            LET e == frun.log[j] IN
            /\ Len(e.pos) = Len(fac._args)
            /\ \A i \in 1..Len(e.pos) : AwaitedSlotHolds(i, e.pos[i])

\* the first and the third slot were awaitable, the second was not, and the
\* awaitable of the third slot completed first
C24_Witness ==
    /\ fbound.is_async /\ Len(frun.log) >= 1
    /\ Len(fac._args) = 3
    /\ PosResolver(1) \in fac.aw /\ PosResolver(3) \in fac.aw
    /\ fac._args[2] \in {"value", "default", "dep_default"}
    /\ frun.order = <<2, 1>>

\* C25: when func is async or one of its dependencies resolves to an
\* awaitable, the closure awaits the awaitables and func receives the awaited
\* products: no argument of func is an awaitable that was not awaited.
C25_AwaitablesMaterialised ==
    \A j \in 1..Len(frun.log) :
        (fac.f_async \/ fac.aw # {}) =>
            \A v \in Produced(frun.log[j]) : v.src # "awaitable"

\* ================================================================
\*  Claims about the ParamResolver
\* ================================================================

\* C26: a parameter whose partial value is a literal is a fixed value: bind
\* gives no dependency, resolve returns the value itself and no resolver or
\* default, and neither asks the scope or the context about any key. For any
\* other parameter the dependency is the partial value if that is a marker,
\* else the default if that is a marker, else the annotation, and it is the
\* only key looked up.
C26_ParameterClassification ==
    LET key == IF pr.value = "marker" THEN "value_marker"
               ELSE IF pr.default = "marker" THEN "default_marker"
               ELSE pr.annotation
    IN IF pr.value = "literal"
       THEN /\ pr.self.has_value
            /\ prObs.bound => (prObs.dep = "None" /\ prObs.bind_asked = <<>>)
            /\ prObs.resolved =>
                  /\ prObs.triple = [v |-> Val("fixed", 1, ""), fn |-> _EMPTY, d |-> _EMPTY]
                  /\ prObs.find_asked = <<>>
       ELSE /\ ~pr.self.has_value
            /\ pr.self.dependency = key
            /\ prObs.bound =>
                  /\ prObs.bind_asked = (IF key = "empty" THEN <<>> ELSE <<key>>)
                  /\ prObs.dep = (IF key \in pr.provided THEN key ELSE "None")
            /\ prObs.resolved =>
                  /\ prObs.find_asked = (IF key = "empty" THEN <<>> ELSE <<key>>)
                  /\ prObs.triple.v = _EMPTY
                  /\ (prObs.triple.fn # _EMPTY) <=> (key \in pr.provided)

\* a literal value for a parameter whose annotation and marker default are
\* both provided, after bind and resolve; the other branch is witnessed by a
\* marker default that wins over the annotation
C26_Witness ==
    /\ prObs.bound /\ prObs.resolved
    /\ pr.value = "literal" /\ pr.default = "marker" /\ pr.annotation = "type"
    /\ pr.provided = DepKeys

\* ================================================================
\*  Claims about the inject wrapper
\* ================================================================

\* C22: a call of the inject wrapper made while no context is active, for a
\* function that has an injected parameter without a default, fails with
\* NoContextError, and func is not called.
C22_NoContextError ==
    (ioc.error # "none" /\ \E i \in 1..Len(fres._args) : fres._args[i] = "dep")
        => (ioc.error = "NoContextError" /\ ~fcall.done)

\* ================================================================
\*  Claims about FactoryResolver.evaluate
\* ================================================================
\* what a parameter of the signature offers, read off the signature itself
IsFixed(p) == p.value = "literal"
HasKey(p) == p.value = "marker" \/ p.default = "marker" \/ p.annotation = "type"
DepProvided(p) == ~IsFixed(p) /\ HasKey(p) /\ p.provided
UsableDefault(p) == p.default = "literal"
NothingUsable(p) == ~DepProvided(p) /\ ~IsFixed(p) /\ ~UsableDefault(p)

\* the positional parameters and var-positional entries, in signature order
PositionalIndices(params) ==
    SelectSeq([i \in 1..Len(params) |-> i], LAMBDA i : params[i].kind \in {"pos", "var"})

\* how many positional parameters precede the first that offers nothing
RECURSIVE UsablePrefix(_, _, _)
UsablePrefix(params, P, k) ==
    IF k > Len(P) \/ NothingUsable(params[P[k]]) THEN k - 1
    ELSE UsablePrefix(params, P, k + 1)

NamesIn(pairs) == {pairs[k].name : k \in 1..Len(pairs)}

\* C27: the positional slots evaluate collects are the positional parameters
\* up to the first that has no provided dependency, no fixed value and no
\* usable default: nothing positional after it is collected; every keyword
\* parameter is judged on its own: a fixed value goes to vals, a provided
\* dependency to kwds, anything else is omitted.
C27_PositionalPrefix ==
    ev.done =>
        LET params == sig.params
            P == PositionalIndices(params)
        IN /\ Len(ev.args) = UsablePrefix(params, P, 1)
           /\ \A k \in 1..Len(ev.args) : ev.args[k].i = P[k]
           /\ \A i \in 1..Len(params) :
                 params[i].kind = "kw" =>
                     /\ (ParamNames[i] \in NamesIn(ev.vals)) = IsFixed(params[i])
                     /\ (ParamNames[i] \in NamesIn(ev.kwds)) = DepProvided(params[i])

\* a positional parameter that offers nothing, a later positional one with a
\* fixed value that is not collected, and a keyword parameter after both that
\* is collected
C27_Witness ==
    /\ ev.done
    /\ \E i, j, k \in 1..Len(sig.params) :
          /\ i < j /\ j < k
          /\ sig.params[i].kind = "pos" /\ NothingUsable(sig.params[i])
          /\ sig.params[j].kind \in {"pos", "var"} /\ IsFixed(sig.params[j])
          /\ sig.params[k].kind = "kw" /\ DepProvided(sig.params[k])
          /\ ev.args = <<>>
          /\ ParamNames[k] \in NamesIn(ev.kwds)

\* a parameter whose dependency the scope does not provide, with a default
\* that can be used in its place
DefaultOnly(p) == ~IsFixed(p) /\ ~DepProvided(p) /\ UsableDefault(p)

\* the slot of the call a positional parameter was given, 0 if none
SlotOf(i) ==
    IF \E k \in 1..Len(ev.args) : ev.args[k].i = i
    THEN CHOOSE k \in 1..Len(ev.args) : ev.args[k].i = i
    ELSE 0

\* f received the default of the positional parameter i
PassedDefault(i) ==
    /\ SlotOf(i) \in 1..Len(ecall.pos)
    /\ ecall.pos[SlotOf(i)].src = "default"

\* a positional parameter before i offers nothing
CutOff(i) ==
    \E j \in 1..(i - 1) : sig.params[j].kind \in {"pos", "var"} /\ NothingUsable(sig.params[j])

\* C28 as stated: a parameter with a dependency the scope does not provide and
\* a usable default causes no error; positional, it is passed its default;
\* keyword, it is left out of the call.
C28_DefaultWithoutError ==
    ecall.done =>
        /\ ecall.outcome = "returned"
        /\ \A i \in 1..Len(sig.params) :
              DefaultOnly(sig.params[i]) =>
                  IF sig.params[i].kind = "kw"
                  THEN ParamNames[i] \notin NamesIn(ecall.kw)
                  ELSE PassedDefault(i)

\* C28 amended: such a parameter causes no error; a keyword one is left out of
\* the call; a positional one is passed its default unless an earlier
\* positional parameter offered nothing, and then it is left out of the call
\* with every positional parameter after that one.
C28_DefaultWithoutErrorInPrefix ==
    ecall.done =>
        /\ ecall.outcome = "returned"
        /\ \A i \in 1..Len(sig.params) :
              DefaultOnly(sig.params[i]) =>
                  IF sig.params[i].kind = "kw"
                  THEN ParamNames[i] \notin NamesIn(ecall.kw)
                  ELSE IF CutOff(i)
                  THEN SlotOf(i) = 0 /\ Len(ecall.pos) < i
                  ELSE PassedDefault(i)

\* a call where a positional parameter was passed its default and a keyword
\* parameter with a default was left out
C28_Witness ==
    /\ ecall.done
    /\ \E i, k \in 1..Len(sig.params) :
          /\ sig.params[i].kind = "pos" /\ DefaultOnly(sig.params[i]) /\ PassedDefault(i)
          /\ sig.params[k].kind = "kw" /\ DefaultOnly(sig.params[k])
          /\ ParamNames[k] \notin NamesIn(ecall.kw)

\* ================================================================
\*  Claims about producers that raise
\* ================================================================
\* the run() calls that are under way and have not raised
Running == {t \in Threads : thr[t].pc \notin {"idle", "unlock_raise"}}
Returns == Len(returned["sng"]) + Len(returned["resA"]) + Len(returned["resB"])

\* C29: a production that raises memoises nothing: a cached value is the
\* product of the one invocation that did not raise, which is the last one, so
\* every call before it invoked the producer again; the caller of a production
\* that raised gets the exception and no value; a thread that left run() does
\* not hold the scope lock.
C29_RaiseMemoisesNothing ==
    /\ \A c \in Closures :
          /\ invoked[c] <= failed[c] + 1
          /\ (invoked[c] = failed[c]) => (value[c] = None /\ returned[c] = <<>>)
          /\ (value[c] # None) => (value[c] = invoked[c] /\ failed[c] = invoked[c] - 1)
    /\ started = Returns + Failures + Cardinality(Running)
    /\ \A t \in Threads : (thr[t].pc \in {"idle", "check1", "acquire", "return"}) => (lock # t)
    /\ ~hasLock => lock = None

\* under the lock, the producer of the singleton raised once, was invoked again
\* by a later call, and that second product was returned
C29_Witness ==
    /\ hasLock
    /\ lock = None
    /\ failed["sng"] = 1
    /\ invoked["sng"] = 2
    /\ returned["sng"] = <<2>>

\* the threads that produced r and are entering it
Entering(r) == {t \in Threads : thr[t].cur = r /\ thr[t].pc = "enter"}

\* C30: a resource closure caches a value only after the resource was entered
\* and its teardown pushed on the exit stack: the teardown is there when the
\* value is about to be stored and while it is cached; an __enter__ that raises
\* pushes no teardown and caches nothing, so the teardowns pushed are those of
\* the productions that did not raise.
C30_CachedImpliesEntered ==
    \A r \in Resources :
        /\ (value[r] # None) => (Pushes(r) # {})
        /\ \A t \in Threads :
              (thr[t].cur = r /\ thr[t].pc = "store") => (Pushes(r) # {} /\ value[r] = None)
        /\ Cardinality(Pushes(r)) = invoked[r] - failed[r] - Cardinality(Entering(r))
        /\ (invoked[r] = failed[r]) => (value[r] = None /\ Pushes(r) = {})
        /\ (closes = 0) =>
              \A i \in Pushes(r) : \E k \in 1..Len(stack) : stack[k].id = enterLog[i].id

\* one resource is entered and cached, the __enter__ of the other raised
C30_Witness ==
    /\ enterRec.outcome = "raised"
    /\ Failures = 1
    /\ \E r, q \in Resources :
          /\ value[r] # None /\ Pushes(r) # {}
          /\ failed[q] = 1 /\ value[q] = None /\ Pushes(q) = {}

\* ================================================================
\*  Claims about enter and about the exception triple during close
\* ================================================================
Registered(id) == {k \in 1..Len(pushed) : pushed[k].id = id}

\* C31: enter(cm) pushes cm's exit callback only after __enter__ returned: a
\* successful enter added exactly one callback and returned the result of
\* __enter__; an enter whose __enter__ raised returned nothing, left the stack
\* as it was, and its cm is never called by a close.
C31_EnterPushesAfterEntered ==
    /\ (enterRec.outcome = "entered") =>
          /\ Cardinality(Registered(enterRec.cm)) = 1
          /\ \A k \in Registered(enterRec.cm) : pushed[k].wrapper = "exit"
          /\ enterRec.result = enterRec.cm
    /\ (enterRec.outcome = "raised") =>
          /\ Registered(enterRec.cm) = {}
          /\ enterRec.result = None
    /\ (closes = 0) => (stack = pushed)
    /\ \A id \in 1..nextId :
          (Registered(id) = {}) =>
              /\ ran[id] = 0
              /\ \A k \in 1..Len(stack) : stack[k].id # id

\* a callback was registered, then an enter whose __enter__ raised, then
\* another callback, and the stack was closed
C31_Witness ==
    /\ enterRec.outcome = "raised"
    /\ enterRec.cm = 2
    /\ Len(pushed) = 2
    /\ closes = 1
    /\ Len(closeRec.log) = 2

\* the k-th callback the last close called returned a true value
ReturnedTrue(k) ==
    \E j \in 1..Len(pushed) :
        /\ pushed[j].id = closeRec.log[k].id
        /\ pushed[j].wrapper = "exit"
        /\ pushed[j].beh = "true"

\* the exception pending when the k-th callback of the last close is called
RECURSIVE PendingAt(_)
PendingAt(k) ==
    IF k = 1 THEN closeRec.passed
    ELSE IF closeRec.log[k - 1].raised # None THEN closeRec.log[k - 1].raised
    ELSE IF ReturnedTrue(k - 1) THEN None
    ELSE PendingAt(k - 1)

RaisedBetween(k, m) == \E n \in (k + 1)..(m - 1) : closeRec.log[n].raised # None

\* C32 as stated: each callback is called with the exception pending at that
\* moment, every callback run after one that returned a true value is called
\* with (None, None, None), and __exit__ returns true only if it was entered
\* with an exception and a callback suppressed.
C32_NoneAfterSuppression ==
    (closeRec.outcome # "none") =>
        /\ \A k \in 1..Len(closeRec.log) : closeRec.log[k].exc = PendingAt(k)
        /\ \A k, m \in 1..Len(closeRec.log) :
              (k < m /\ ReturnedTrue(k)) => (closeRec.log[m].exc = None)
        /\ closeRec.retval =>
              (closeRec.passed # None /\ \E k \in 1..Len(closeRec.log) : ReturnedTrue(k))

\* C32 amended: each callback is called with the exception pending at that
\* moment: the one passed to __exit__, replaced by the exception of the last
\* callback that raised, and none once a callback returned a true value until
\* a later callback raises; a re-raise is pending after the loop only if the
\* last callback to raise was not followed by one returning true, and __exit__
\* returns true only if it was entered with an exception and a callback
\* suppressed.
C32_PendingTriplePassed ==
    (closeRec.outcome # "none") =>
        /\ \A k \in 1..Len(closeRec.log) : closeRec.log[k].exc = PendingAt(k)
        /\ \A k, m \in 1..Len(closeRec.log) :
              (k < m /\ ReturnedTrue(k) /\ ~RaisedBetween(k, m) /\ closeRec.log[k].raised = None)
                  => (closeRec.log[m].exc = None)
        /\ (closeRec.outcome = "raise") =>
              \E k \in 1..Len(closeRec.log) :
                  /\ closeRec.log[k].raised = closeRec.exc
                  /\ closeRec.exc # None
                  /\ \A m \in (k + 1)..Len(closeRec.log) :
                        ~ReturnedTrue(m) /\ closeRec.log[m].raised = None
        /\ closeRec.retval =>
              (closeRec.passed # None /\ \E k \in 1..Len(closeRec.log) : ReturnedTrue(k))

\* __exit__ entered with an exception: the first callback suppresses it, the
\* second is called with no exception and raises, the third is called with
\* the exception the second raised
C32_Witness ==
    /\ closeRec.passed # None
    /\ Len(closeRec.log) = 3
    /\ ReturnedTrue(1) /\ closeRec.log[1].exc = closeRec.passed
    /\ closeRec.log[2].exc = None /\ closeRec.log[2].raised # None
    /\ closeRec.log[3].exc = closeRec.log[2].raised
    /\ closeRec.outcome = "raise"

\* the last __exit__ was entered with an exception on a stack that held only
\* callbacks registered with callback(fn, ...)
OnlyFnCallbacks ==
    /\ closeRec.outcome # "none"
    /\ closeRec.passed # None
    /\ closeRec.before # <<>>
    /\ \A k \in 1..Len(closeRec.before) : closeRec.before[k].wrapper = "cb"

\* C33: a function registered with callback() cannot suppress: on a stack of
\* such callbacks an __exit__ entered with an exception does not return a true
\* value, and as long as no callback has raised each one is called with the
\* exception __exit__ was entered with; when none raises __exit__ returns
\* false.
C33_CallbackCannotSuppress ==
    OnlyFnCallbacks =>
        /\ ~closeRec.retval
        /\ \A k \in 1..Len(closeRec.log) :
              (\A n \in 1..(k - 1) : closeRec.log[n].raised = None)
                  => (closeRec.log[k].exc = closeRec.passed)
        /\ (\A k \in 1..Len(closeRec.log) : closeRec.log[k].raised = None)
              => (closeRec.outcome = "return")

\* three functions that return a true value, unwound with an exception
C33_Witness ==
    /\ OnlyFnCallbacks
    /\ Len(closeRec.before) = 3
    /\ \A k \in 1..3 : closeRec.before[k].beh = "true"
    /\ Len(closeRec.log) = 3
    /\ closeRec.outcome = "return"
    /\ ~closeRec.retval

\* ================================================================
\*  Claims about asynchronous unwinding
\* ================================================================
IsAsyncCallback(id) == \E j \in 1..Len(pushed) : pushed[j].id = id /\ ~pushed[j].is_sync
CallEvents(evs) == SelectSeq(evs, LAMBDA e : e.ev = "call")
AwaitEvents(evs, id) == {k \in 1..Len(evs) : evs[k].ev = "await" /\ evs[k].id = id}

\* C34: __aexit__ on a stack of synchronous and asynchronous callbacks calls
\* them newest first, each exactly once, and leaves the stack empty; the
\* coroutine of an asynchronous callback is awaited right after the call that
\* made it, before the next callback is called, and nothing else is awaited; a
\* further aclose invokes nothing.
C34_AsyncCloseLifoAwaited ==
    /\ \A i \in DOMAIN ran : ran[i] <= 1
    /\ (closes >= 1 /\ closeRec.is_async) =>
          /\ stack = <<>>
          /\ \A i \in 1..Len(pushed) : ran[pushed[i].id] = 1
          /\ (closes = 1) =>
                /\ Ids(closeRec.log) = Reverse(Ids(pushed))
                /\ Ids(CallEvents(closeRec.events)) = Reverse(Ids(pushed))
                /\ \A k \in 1..Len(closeRec.events) :
                      LET e == closeRec.events[k] IN
                      /\ (e.ev = "call" /\ IsAsyncCallback(e.id)) =>
                            /\ k < Len(closeRec.events)
                            /\ closeRec.events[k + 1] = [id |-> e.id, ev |-> "await"]
                      /\ (e.ev = "await") =>
                            /\ IsAsyncCallback(e.id)
                            /\ Cardinality(AwaitEvents(closeRec.events, e.id)) = 1
          /\ (closes >= 2) => (closeRec.log = <<>>)

\* an asynchronous callback registered between two synchronous ones, the
\* older of which raises, unwound by one aclose
C34_Witness ==
    /\ closes = 1
    /\ closeRec.is_async
    /\ Len(pushed) = 3
    /\ pushed[1].is_sync /\ pushed[1].beh = "raise"
    /\ ~pushed[2].is_sync
    /\ pushed[3].is_sync
    /\ Len(closeRec.events) = 4
    /\ closeRec.outcome = "raise"

AsyncIn(stk) == {k \in 1..Len(stk) : ~stk[k].is_sync}
Newest(S) == CHOOSE k \in S : \A j \in S : j <= k

\* C36: a synchronous close never calls an asynchronous callback: when it
\* reaches the newest one it fails with the AssertionError, having called only
\* the callbacks registered after it; those registered before it are not
\* called and stay on the stack.
C36_SyncCloseStopsAtAsync ==
    /\ \A j \in 1..Len(pushed) : ~pushed[j].is_sync => ran[pushed[j].id] = 0
    /\ (closeRec.outcome # "none" /\ ~closeRec.is_async /\ AsyncIn(closeRec.before) # {}) =>
          LET a == Newest(AsyncIn(closeRec.before)) IN
          /\ closeRec.outcome = "assert"
          /\ Ids(closeRec.log) =
                 Reverse(Ids(SubSeq(closeRec.before, a + 1, Len(closeRec.before))))
          /\ closeRec.stack = SubSeq(closeRec.before, 1, a - 1)
          /\ stack = closeRec.stack

\* a synchronous, an asynchronous and another synchronous callback: close
\* calls the last, fails at the asynchronous one, and the first stays
C36_Witness ==
    /\ closes = 1
    /\ ~closeRec.is_async
    /\ Len(closeRec.before) = 3
    /\ AsyncIn(closeRec.before) = {2}
    /\ closeRec.outcome = "assert"
    /\ Len(closeRec.log) = 1
    /\ Len(stack) = 1 /\ stack[1] = closeRec.before[1]

\* ================================================================
\*  Claims about negative results of the bindings cache
\* ================================================================
\* no provider registered for the key, or for its origin, can bind it
Unbindable(k) == Retained(k) = {}

MissingFor(k) == {t \in Threads : binder[t].key = k /\ binder[t].pc = "missing"}
StoringFor(k) == {t \in Threads : binder[t].key = k /\ binder[t].pc = "store"}

\* C35: for a key no provider can bind, the first lookup stores None itself
\* under the key and returns it, and so does every lookup; once None is stored
\* a lookup of the key does not resolve again: resolution runs only for the
\* lookups that missed before the first store.
C35_NegativeMemoised ==
    /\ [](\A k \in RegKeys :
            Unbindable(k) =>
                /\ bmap[k] \in {AbsentEntry, NoneEntry}
                /\ \A i \in 1..Len(lookups[k]) : lookups[k][i] = NoneEntry
                /\ (lookups[k] # <<>>) => (bmap[k] = NoneEntry)
                /\ (sequential /\ lookups[k] # <<>>) => (bindCount[k] = 1))
    /\ [][\A k \in RegKeys :
            (Unbindable(k) /\ bmap[k].has /\ MissingFor(k) = {})
                => (bindCount'[k] = bindCount[k] /\ bmap'[k] = bmap[k]
                    /\ MissingFor(k)' = {})]_vars

\* providers are registered for "K" but cannot bind in this scope: two
\* lookups that do not overlap returned None, and resolution ran once
C35_Witness ==
    /\ sequential
    /\ bindings["K"] # <<>>
    /\ Unbindable("K")
    /\ lookups["K"] = <<NoneEntry, NoneEntry>>
    /\ bmap["K"] = NoneEntry
    /\ bindCount["K"] = 1

\* ================================================================
\*  Claims about nested resolution under the scope lock
\* ================================================================
\* thread t waits at `with lock:` for a lock it cannot take
Blocked(t) == At(t, "acquire") /\ ~MayAcquire(scopeLock, t)

\* C37: a closure whose producer resolves another closure of the scope that
\* has not been produced yet terminates: the nested run(), which comes to
\* `with lock:` while the outer run() of the same thread holds the lock, is
\* never blocked on it.
C37_NestedSlowPathTerminates ==
    \A t \in Threads : ~(Blocked(t) /\ scopeLock.owner = t)

\* ================================================================
\*  Claims about IocContainer.add_dependant
\* ================================================================
\* C38: once the container's _context is set no add_dependant call changes
\* it; every dependant scope whose own context is set has the container's
\* context; a call with a scope whose context conflicts raises ValueError and
\* leaves dependants and _context as they were.
C38_DependantsShareContext ==
    /\ [](/\ \A i \in 1..Len(dependants) :
               (scopeContext[dependants[i]] # None) => (scopeContext[dependants[i]] = _context)
          /\ (lastAdd.outcome = "ValueError") =>
                /\ dependants = lastAdd.dependants
                /\ _context = lastAdd._context
                /\ _context # None
                /\ scopeContext[lastAdd.scope] \notin {None, _context}
          /\ (lastAdd.outcome = "added") => (lastAdd.scope \in Range(dependants)))
    /\ [][(_context # None) => (_context' = _context)]_vars

\* a scope without a context and a scope with one were added, then a scope
\* bound to another context was refused
C38_Witness ==
    /\ lastAdd.outcome = "ValueError"
    /\ Len(dependants) = 2
    /\ scopeContext[dependants[1]] = None
    /\ scopeContext[dependants[2]] = _context

\* C39: for every pair of containers a, b, a paired with itself included,
\* a != b is the negation of a == b: a != a is False, and a != b is True
\* exactly when a and b are different objects
C39_NeNegatesEq ==
    obs.kind = "ne" => obs.result = PyBool(~__eq__(obs.self, obs.other))

====
